---- MODULE Spec2Model ----
(***************************************************************************)
(* A model of hakana's data-flow graph (code_info/data_flow/graph.rs,      *)
(* node.rs) and of the assertion reconciler's environment update           *)
(* (analyzer/reconciler/reconciler.rs), with the two callers that rewrite  *)
(* provenance (Shapes::removeKey and function-call add_dataflow).          *)
(***************************************************************************)
EXTENDS Integers, Sequences, FiniteSets, TLC

VARIABLES
    graph,          \* the DataFlowGraph being built (tast_info.data_flow_graph)
    panicked,       \* TRUE once an operation hit panic!()
    ops,            \* number of operations applied so far
    last,           \* the last operation and its inputs
    context,        \* the ScopeContext: vars_in_scope and allow_taints
    call_type       \* the type add_dataflow returned for the last call, if any

vars == <<graph, panicked, ops, last, context, call_type>>

(***************************************************************************)
(* Maps (FxHashMap / BTreeMap) are functions with a finite domain.         *)
(***************************************************************************)
EmptyMap == [x \in {} |-> {}]

MapPut(m, k, v) == [x \in (DOMAIN m) \cup {k} |-> IF x = k THEN v ELSE m[x]]

\* HashMap::extend: the entries of n are inserted over those of m
MapExtend(m, n) ==
    [x \in (DOMAIN m) \cup (DOMAIN n) |-> IF x \in DOMAIN n THEN n[x] ELSE m[x]]

\* entry(k).or_default() of a map of sets
SetAt(m, k) == IF k \in DOMAIN m THEN m[k] ELSE {}

\* entry(k).or_default() of a map of maps
MapAt(m, k) == IF k \in DOMAIN m THEN m[k] ELSE EmptyMap

(***************************************************************************)
(* Source positions (HPos) and node ids (DataFlowNodeId).  An id is a      *)
(* tagged record; fields a variant does not carry are "" or 0.             *)
(***************************************************************************)
HPos(file, start, end) == [file |-> file, start |-> start, end |-> end]

Pos1 == HPos("a.hack", 1, 5)
Pos2 == HPos("a.hack", 7, 9)

NodeId(tag, label, file, start, end) ==
    [tag |-> tag, label |-> label, file |-> file, start |-> start, end |-> end]

VarId(var_id, pos) == NodeId("Var", var_id, pos.file, pos.start, pos.end)
CallToId(f) == NodeId("CallTo", f, "", 0, 0)
LocalizedCallToId(f, file, offset) == NodeId("LocalizedCallTo", f, file, offset, 0)
FunctionLikeArgId(f, arg) == NodeId("FunctionLikeArg", f, "", arg, 0)
LocalizedFunctionLikeArgId(f, arg, file, offset) ==
    NodeId("LocalizedFunctionLikeArg", f, file, arg, offset)

\* DataFlowNodeId::unlocalize; any other variant panics (no case applies)
unlocalize(id) ==
    CASE id.tag = "LocalizedCallTo" -> CallToId(id.label)
      [] id.tag = "LocalizedFunctionLikeArg" -> FunctionLikeArgId(id.label, id.start)

IsLocalizedCallTo(id) == id.tag = "LocalizedCallTo"

\* the (file, offset) an id of variant LocalizedCallTo carries
CallKey(id) == <<id.file, id.start>>

(***************************************************************************)
(* Nodes (DataFlowNode): an id and a kind.  specialization_key is an       *)
(* Option, modelled as a set with at most one element.                     *)
(***************************************************************************)
Node(id, kind, pos, key) ==
    [id |-> id, kind |-> kind, pos |-> pos, specialization_key |-> key]

get_for_lvar(var_id, pos) == Node(VarId(var_id, pos), "Vertex", {pos}, {})

get_for_call(f, pos) ==
    Node(LocalizedCallToId(f, pos.file, pos.start), "Vertex", {pos}, {})

\* specialization_location is an Option: {} or {pos}
get_for_method_return(f, pos, specialization_location) ==
    IF specialization_location = {}
    THEN Node(CallToId(f), "Vertex", pos, {})
    ELSE LET loc == CHOOSE l \in specialization_location : TRUE
         IN Node(LocalizedCallToId(f, loc.file, loc.start), "Vertex", pos,
                 {<<loc.file, loc.start>>})

get_for_method_argument(f, argument_offset, arg_location, pos) ==
    IF pos = {}
    THEN Node(FunctionLikeArgId(f, argument_offset), "Vertex", arg_location, {})
    ELSE LET p == CHOOSE l \in pos : TRUE
         IN Node(LocalizedFunctionLikeArgId(f, argument_offset, p.file, p.start),
                 "Vertex", arg_location, {<<p.file, p.start>>})

get_for_variable_source(label, pos) ==
    Node(VarId(label, pos), "VariableUseSource", {pos}, {})

get_for_variable_sink(label, pos) ==
    Node(VarId(label, pos), "VariableUseSink", {pos}, {})

(***************************************************************************)
(* Edges (DataFlowPath) and path kinds.                                    *)
(***************************************************************************)
PathKind(name, key) == [name |-> name, key |-> key]

PKDefault == PathKind("Default", "")
PKAggregate == PathKind("Aggregate", "")
PKScalarTypeGuard == PathKind("ScalarTypeGuard", "")
PKRemoveDictKey(key) == PathKind("RemoveDictKey", key)

DataFlowPath(kind, added, removed) ==
    [kind |-> kind, added_taints |-> added, removed_taints |-> removed]

(***************************************************************************)
(* The graph.                                                              *)
(***************************************************************************)
FunctionBody == <<"FunctionBody">>
WholeProgram(k) == <<"WholeProgram", k>>
GraphKinds == {FunctionBody, WholeProgram("Taint"), WholeProgram("Query")}

IsWholeProgram(kind) == kind[1] = "WholeProgram"

new(kind) ==
    [kind |-> kind,
     vertices |-> EmptyMap,
     forward_edges |-> EmptyMap,
     backward_edges |-> EmptyMap,
     sources |-> EmptyMap,
     sinks |-> EmptyMap,
     mixed_source_counts |-> EmptyMap,
     specializations |-> EmptyMap,
     specialized_calls |-> EmptyMap]

SourceKinds == {"TaintSource", "VariableUseSource", "DataSource", "ForLoopInit"}
SinkKinds == {"TaintSink", "VariableUseSink"}

add_node(g, node) ==
    IF node.kind = "Vertex"
    THEN LET spec == IsWholeProgram(g.kind) /\ node.specialization_key # {}
             key == CHOOSE k \in node.specialization_key : TRUE
             unspecialized_id == unlocalize(node.id)
         IN [g EXCEPT
               !.specializations =
                   IF spec
                   THEN MapPut(@, unspecialized_id, SetAt(@, unspecialized_id) \cup {key})
                   ELSE @,
               !.specialized_calls =
                   IF spec
                   THEN MapPut(@, key, SetAt(@, key) \cup {unspecialized_id})
                   ELSE @,
               !.vertices = MapPut(@, node.id, node)]
    ELSE IF node.kind \in SourceKinds
    THEN [g EXCEPT !.sources = MapPut(@, node.id, node)]
    ELSE [g EXCEPT !.sinks = MapPut(@, node.id, node)]

\* add_path without the test for equal ids
add_path_keep_self(g, from, to, path_kind, added_taints, removed_taints) ==
    [g EXCEPT
       !.backward_edges =
           IF g.kind = FunctionBody
           THEN MapPut(@, to.id, SetAt(@, to.id) \cup {from.id})
           ELSE @,
       !.forward_edges =
           MapPut(@, from.id,
                  MapPut(MapAt(@, from.id), to.id,
                         DataFlowPath(path_kind, added_taints, removed_taints)))]

\* add_path leaving an edge the pair already has as it is
add_path_keep_first(g, from, to, path_kind, added_taints, removed_taints) ==
    IF from.id = to.id
    THEN g
    ELSE [g EXCEPT
            !.backward_edges =
                IF g.kind = FunctionBody
                THEN MapPut(@, to.id, SetAt(@, to.id) \cup {from.id})
                ELSE @,
            !.forward_edges =
                MapPut(@, from.id,
                       MapExtend(MapPut(EmptyMap, to.id,
                                        DataFlowPath(path_kind, added_taints, removed_taints)),
                                 MapAt(@, from.id)))]

add_path(g, from, to, path_kind, added_taints, removed_taints) ==
    IF from.id = to.id
    THEN g
    ELSE [g EXCEPT
            !.backward_edges =
                IF g.kind = FunctionBody
                THEN MapPut(@, to.id, SetAt(@, to.id) \cup {from.id})
                ELSE @,
            !.forward_edges =
                MapPut(@, from.id,
                       MapPut(MapAt(@, from.id), to.id,
                              DataFlowPath(path_kind, added_taints, removed_taints)))]

\* for (key, v) in n { m.entry(key).or_default().extend(v) } on a map of sets
UnionInto(m, n) ==
    [x \in (DOMAIN m) \cup (DOMAIN n) |-> SetAt(m, x) \cup SetAt(n, x)]

\* the same on a map of maps
ExtendInto(m, n) ==
    [x \in (DOMAIN m) \cup (DOMAIN n) |->
        IF x \in DOMAIN n THEN MapExtend(MapAt(m, x), n[x]) ELSE m[x]]

\* merge_graph forgetting the backward edges of the merged graph
merge_graph_forward_only(g, h) ==
    [g EXCEPT
       !.forward_edges = ExtendInto(@, h.forward_edges),
       !.mixed_source_counts =
           IF g.kind = FunctionBody THEN UnionInto(@, h.mixed_source_counts) ELSE @,
       !.specializations =
           IF g.kind = FunctionBody THEN @ ELSE UnionInto(@, h.specializations),
       !.vertices = MapExtend(@, h.vertices),
       !.sources = MapExtend(@, h.sources),
       !.sinks = MapExtend(@, h.sinks)]

\* merge_graph keeping the receiver's entry where both graphs define one
merge_graph_keep_existing(g, h) ==
    [g EXCEPT
       !.forward_edges =
           [x \in (DOMAIN g.forward_edges) \cup (DOMAIN h.forward_edges) |->
               MapExtend(MapAt(h.forward_edges, x), MapAt(g.forward_edges, x))],
       !.backward_edges =
           IF g.kind = FunctionBody THEN UnionInto(@, h.backward_edges) ELSE @,
       !.mixed_source_counts =
           IF g.kind = FunctionBody THEN UnionInto(@, h.mixed_source_counts) ELSE @,
       !.specializations =
           IF g.kind = FunctionBody THEN @ ELSE UnionInto(@, h.specializations),
       !.vertices = MapExtend(h.vertices, @),
       !.sources = MapExtend(@, h.sources),
       !.sinks = MapExtend(@, h.sinks)]

\* add_graph after its kind check
merge_graph(g, h) ==
    [g EXCEPT
       !.forward_edges = ExtendInto(@, h.forward_edges),
       !.backward_edges =
           IF g.kind = FunctionBody THEN UnionInto(@, h.backward_edges) ELSE @,
       !.mixed_source_counts =
           IF g.kind = FunctionBody THEN UnionInto(@, h.mixed_source_counts) ELSE @,
       !.specializations =
           IF g.kind = FunctionBody THEN @ ELSE UnionInto(@, h.specializations),
       !.vertices = MapExtend(@, h.vertices),
       !.sources = MapExtend(@, h.sources),
       !.sinks = MapExtend(@, h.sinks)]

\* add_graph comparing only the outer variant of the kinds
add_graph_outer_kind_only(g, h) ==
    IF g.kind[1] # h.kind[1]
    THEN [panic |-> TRUE, graph |-> g]
    ELSE [panic |-> FALSE, graph |-> merge_graph(g, h)]

\* add_graph: [panic |-> the kinds differ, graph |-> the receiver afterwards]
add_graph(g, h) ==
    IF g.kind # h.kind
    THEN [panic |-> TRUE, graph |-> g]
    ELSE [panic |-> FALSE, graph |-> merge_graph(g, h)]

(***************************************************************************)
(* get_origin_nodes.  The hash sets are enumerated in an order the code    *)
(* does not fix: ord is a sequence of all node ids, and every set is       *)
(* enumerated in the order its members appear in ord.                      *)
(***************************************************************************)
MaxRounds == 50

InOrder(S, ord) == SelectSeq(ord, LAMBDA x : x \in S)

\* the node a parent id resolves to (vertices first, then sources)
ParentNode(g, id) == IF id \in DOMAIN g.vertices THEN g.vertices[id] ELSE g.sources[id]

\* the loop over backward_edges[child] that does not note a parent already
\* visited
RECURSIVE ScanParentsUnnoted(_, _, _, _, _, _)
ScanParentsUnnoted(g, child_id, froms, visited, ignore_paths, acc) ==
    IF froms = <<>>
    THEN acc
    ELSE LET from_id == Head(froms)
             ignored == /\ from_id \in DOMAIN g.forward_edges
                        /\ child_id \in DOMAIN g.forward_edges[from_id]
                        /\ g.forward_edges[from_id][child_id].kind \in ignore_paths
         IN IF ignored
            THEN acc
            ELSE ScanParentsUnnoted(g, child_id, Tail(froms), visited, ignore_paths,
                     IF (from_id \in DOMAIN g.vertices \/ from_id \in DOMAIN g.sources)
                        /\ from_id \notin visited
                     THEN [acc EXCEPT !.new = Append(@, from_id)]
                     ELSE acc)

\* the loop over backward_edges[child]: acc = [new |-> ids of new_parent_nodes,
\* hv |-> has_visited_a_parent_already]
RECURSIVE ScanParents(_, _, _, _, _, _)
ScanParents(g, child_id, froms, visited, ignore_paths, acc) ==
    IF froms = <<>>
    THEN acc
    ELSE LET from_id == Head(froms)
             ignored == /\ from_id \in DOMAIN g.forward_edges
                        /\ child_id \in DOMAIN g.forward_edges[from_id]
                        /\ g.forward_edges[from_id][child_id].kind \in ignore_paths
         IN IF ignored
            THEN acc
            ELSE ScanParents(g, child_id, Tail(froms), visited, ignore_paths,
                     IF from_id \in DOMAIN g.vertices \/ from_id \in DOMAIN g.sources
                     THEN IF from_id \notin visited
                          THEN [acc EXCEPT !.new = Append(@, from_id)]
                          ELSE [acc EXCEPT !.hv = TRUE]
                     ELSE acc)

\* the loop over child_nodes of one round without the test for a child
\* already visited
RECURSIVE ExpandChildrenAgain(_, _, _, _, _)
ExpandChildrenAgain(g, child_nodes, ignore_paths, ord, st) ==
    IF child_nodes = <<>>
    THEN st
    ELSE LET child_node == Head(child_nodes)
             visited == st.visited \cup {child_node.id}
             scan == ScanParents(g, child_node.id,
                         InOrder(SetAt(g.backward_edges, child_node.id), ord),
                         visited, ignore_paths, [new |-> <<>>, hv |-> FALSE])
             kept == SelectSeq(scan.new, LAMBDA id : id \notin visited)
         IN ExpandChildrenAgain(g, Tail(child_nodes), ignore_paths, ord,
                [visited |-> visited,
                 origins |-> IF scan.new = <<>> /\ ~scan.hv
                             THEN Append(st.origins, child_node)
                             ELSE st.origins,
                 parents |-> IF scan.new = <<>>
                             THEN st.parents
                             ELSE st.parents \o
                                  [i \in 1..Len(kept) |-> ParentNode(g, kept[i])],
                 trace |-> Append(st.trace, [id |-> child_node.id, visited |-> visited])])

\* the loop over child_nodes of one round: st = [visited, origins, parents,
\* trace]; trace lists the children expanded, each with visited_child_ids as
\* it was when the child was expanded
RECURSIVE ExpandChildren(_, _, _, _, _)
ExpandChildren(g, child_nodes, ignore_paths, ord, st) ==
    IF child_nodes = <<>>
    THEN st
    ELSE LET child_node == Head(child_nodes)
             rest == Tail(child_nodes)
         IN IF child_node.id \in st.visited
            THEN ExpandChildren(g, rest, ignore_paths, ord, st)
            ELSE LET visited == st.visited \cup {child_node.id}
                     scan == ScanParents(g, child_node.id,
                                 InOrder(SetAt(g.backward_edges, child_node.id), ord),
                                 visited, ignore_paths, [new |-> <<>>, hv |-> FALSE])
                     kept == SelectSeq(scan.new, LAMBDA id : id \notin visited)
                 IN ExpandChildren(g, rest, ignore_paths, ord,
                        [visited |-> visited,
                         origins |-> IF scan.new = <<>> /\ ~scan.hv
                                     THEN Append(st.origins, child_node)
                                     ELSE st.origins,
                         parents |-> IF scan.new = <<>>
                                     THEN st.parents
                                     ELSE st.parents \o
                                          [i \in 1..Len(kept) |-> ParentNode(g, kept[i])],
                         trace |-> Append(st.trace,
                                          [id |-> child_node.id, visited |-> visited])])

\* one round and what follows it
RECURSIVE OriginRounds(_, _, _, _, _, _, _, _)
AfterRound(g, ignore_paths, ord, round, st) ==
    IF st.parents = <<>>
    THEN [origins |-> st.origins, rounds |-> round + 1, expanded |-> st.visited,
          trace |-> st.trace]
    ELSE OriginRounds(g, st.parents, ignore_paths, ord, st.visited, st.origins,
                      st.trace, round + 1)

\* the rounds: [origins, rounds |-> rounds run, expanded |-> ids expanded,
\* trace]
OriginRounds(g, child_nodes, ignore_paths, ord, visited, origins, trace, round) ==
    IF round = MaxRounds
    THEN [origins |-> origins, rounds |-> round, expanded |-> visited, trace |-> trace]
    ELSE AfterRound(g, ignore_paths, ord, round,
             ExpandChildren(g, child_nodes, ignore_paths, ord,
                 [visited |-> visited, origins |-> origins, parents |-> <<>>,
                  trace |-> trace]))

\* the whole search, with the rounds it ran and the trace of its expansions
origin_search(g, assignment_node, ignore_paths, ord) ==
    OriginRounds(g, <<assignment_node>>, ignore_paths, ord, {}, <<>>, <<>>, 0)

\* a search that takes the start node for its own origin
StartIsOrigin(g, assignment_node, ignore_paths, ord) == <<assignment_node>>

get_origin_nodes(g, assignment_node, ignore_paths, ord) ==
    origin_search(g, assignment_node, ignore_paths, ord).origins

\* the loop of add_mixed_data over the origin nodes
RECURSIVE CountMixed(_, _, _)
CountMixed(counts, origin_nodes, pos) ==
    IF origin_nodes = <<>>
    THEN counts
    ELSE LET id == Head(origin_nodes).id
         IN CountMixed(
                IF id.tag \in {"CallTo", "LocalizedCallTo"}
                THEN MapPut(counts, id, SetAt(counts, id) \cup {pos})
                ELSE counts,
                Tail(origin_nodes), pos)

add_mixed_data(g, assignment_node, pos, ord) ==
    [g EXCEPT !.mixed_source_counts =
        CountMixed(@, get_origin_nodes(g, assignment_node, {}, ord), pos)]

(***************************************************************************)
(* Building and merging graphs.  The inputs: a few nodes made by the       *)
(* constructors of node.rs, and the graphs add_graph is handed, each built *)
(* from new(kind) by the operations above.                                 *)
(***************************************************************************)
MaxOps == 3

VarX == get_for_lvar("$x", Pos1)
VarY == get_for_lvar("$y", Pos2)
CallF == get_for_call("f", Pos1)
ReturnF == get_for_method_return("f", {Pos2}, {})
ReturnFAt1 == get_for_method_return("f", {Pos2}, {Pos1})
SourceX == get_for_variable_source("$x", Pos1)
SinkY == get_for_variable_sink("$y", Pos2)

GraphNodes == {VarX, VarY, CallF, ReturnF, ReturnFAt1, SourceX, SinkY}
EdgeEnds == {VarX, VarY, ReturnFAt1}
GraphIds == {n.id : n \in GraphNodes}

\* (path_kind, added_taints, removed_taints) of the edges added
EdgeLabels == {<<PKDefault, {}, {}>>, <<PKAggregate, {"HtmlTag"}, {"Sql"}>>}

MixedPositions == {"a.hack:1", "a.hack:7"}

Orders(S) ==
    {s \in [1..Cardinality(S) -> S] : \A i, j \in DOMAIN s : i # j => s[i] # s[j]}

GraphOrders == Orders(GraphIds)

\* the ids the search enumerates: the members of the sets of backward_edges
ParentIds(g) == UNION {g.backward_edges[child] : child \in DOMAIN g.backward_edges}

SomeOrder == CHOOSE o \in GraphOrders : TRUE

\* $x = f($x, $y) with $y = g($x): $x flows into $y and into the argument
\* of f, both flow into the return of f, and the return flows into $x
Looped(g0) ==
    add_path(add_path(add_path(add_path(add_path(
        add_node(add_node(add_node(add_node(g0, VarX), VarY), ReturnFAt1), ReturnF),
        VarX, VarY, PKAggregate, {}, {}),
        VarX, ReturnFAt1, PKDefault, {}, {}),
        VarY, ReturnF, PKDefault, {}, {}),
        ReturnFAt1, ReturnF, PKAggregate, {}, {}),
        ReturnF, VarX, PKDefault, {}, {})

\* the graphs a finished function analysis hands over
HandedOver(kind) ==
    LET g0 == new(kind)
        edge == add_path(add_node(add_node(g0, ReturnFAt1), VarX),
                         ReturnFAt1, VarX, PKAggregate, {}, {"Sql"})
    IN {g0,
        edge,
        add_mixed_data(edge, VarX, "a.hack:7", SomeOrder),
        add_mixed_data(add_path(add_node(add_node(g0, CallF), VarX),
                                CallF, VarX, PKDefault, {}, {}),
                       VarX, "a.hack:1", SomeOrder),
        add_path(add_node(g0, SourceX), VarX, VarY, PKDefault, {}, {}),
        add_node(add_node(g0, CallF), SinkY),
        add_path(add_path(g0, VarY, VarX, PKDefault, {}, {}),
                 VarX, ReturnF, PKDefault, {"HtmlTag"}, {}),
        Looped(g0)}

HandedOverGraphs == UNION {HandedOver(k) : k \in GraphKinds}

GraphInit ==
    /\ graph \in {new(k) : k \in GraphKinds}
    /\ panicked = FALSE
    /\ ops = 0
    /\ last = [op |-> "new", pre |-> {}, arg |-> {}]
    /\ context = [vars_in_scope |-> EmptyMap, allow_taints |-> TRUE]
    /\ call_type = {}

CanStep == ~panicked /\ ops < MaxOps

AddNode ==
    /\ CanStep
    /\ \E node \in GraphNodes :
          /\ graph' = add_node(graph, node)
          /\ last' = [op |-> "add_node", pre |-> {}, arg |-> {}]
    /\ ops' = ops + 1
    /\ UNCHANGED <<panicked, context, call_type>>

AddPath ==
    /\ CanStep
    /\ \E from \in EdgeEnds, to \in EdgeEnds, l \in EdgeLabels :
          /\ graph' = add_path(graph, from, to, l[1], l[2], l[3])
          /\ last' = [op |-> "add_path",
                       pre |-> [from |-> from.id, to |-> to.id,
                                path |-> DataFlowPath(l[1], l[2], l[3]),
                                before |-> IF to.id \in DOMAIN MapAt(graph.forward_edges, from.id)
                                           THEN {graph.forward_edges[from.id][to.id]}
                                           ELSE {}],
                       arg |-> (from.id = to.id)]
    /\ ops' = ops + 1
    /\ UNCHANGED <<panicked, context, call_type>>

AddMixedData ==
    /\ CanStep
    /\ \E node \in {VarX, VarY}, pos \in MixedPositions, ord \in Orders(ParentIds(graph)) :
          /\ graph' = add_mixed_data(graph, node, pos, ord)
          /\ last' = [op |-> "add_mixed_data", pre |-> {}, arg |-> {}]
    /\ ops' = ops + 1
    /\ UNCHANGED <<panicked, context, call_type>>

AddGraph ==
    /\ CanStep
    /\ \E other \in HandedOverGraphs :
          LET r == add_graph(graph, other)
          IN /\ graph' = r.graph
             /\ panicked' = r.panic
             /\ last' = [op |-> "add_graph", pre |-> graph, arg |-> other]
    /\ ops' = ops + 1
    /\ UNCHANGED <<context, call_type>>

\* the kinds a caller of get_origin_nodes may ignore
IgnoredKinds == {{}, {PKAggregate}}

Ids(nodes) == [i \in 1..Len(nodes) |-> nodes[i].id]

GetOriginNodes ==
    /\ CanStep
    /\ \E node \in {VarX, ReturnF}, ignore_paths \in IgnoredKinds,
          ord \in Orders(ParentIds(graph)) :
          LET r == origin_search(graph, node, ignore_paths, ord)
          IN last' = [op |-> "get_origin_nodes",
                      pre |-> [node |-> node.id, ignore_paths |-> ignore_paths],
                      arg |-> [origins |-> Ids(r.origins), rounds |-> r.rounds,
                               expanded |-> r.expanded, trace |-> r.trace]]
    /\ ops' = ops + 1
    /\ UNCHANGED <<graph, panicked, context, call_type>>

GraphNext == AddNode \/ AddPath \/ AddMixedData \/ AddGraph \/ GetOriginNodes

SpecGraph == GraphInit /\ [][GraphNext]_vars

(***************************************************************************)
(* Claims about the graph, checked under SpecGraph.                        *)
(***************************************************************************)
Edges(g) == {<<u, v>> \in GraphIds \X GraphIds :
                u \in DOMAIN g.forward_edges /\ v \in DOMAIN g.forward_edges[u]}

\* C1: in a function-body graph built by add_node, add_path and add_graph,
\* every forward edge u->v has u in backward_edges[v].
C1_BackwardEdgeForEveryEdge ==
    graph.kind = FunctionBody =>
        \A e \in Edges(graph) : e[1] \in SetAt(graph.backward_edges, e[2])

C1_Witness ==
    /\ graph.kind = FunctionBody
    /\ last.op = "add_graph"
    /\ ~panicked
    /\ Edges(last.arg) # {}
    /\ Edges(last.pre) # {}
    /\ Edges(last.arg) # Edges(last.pre)

\* C2: in a whole-program graph, every vertex whose id is a localized
\* call-to id with key (f,o) has (f,o) in specializations[unlocalized id]
\* and the unlocalized id in specialized_calls[(f,o)].
C2_SpecializationIndexed ==
    IsWholeProgram(graph.kind) =>
        \A id \in DOMAIN graph.vertices :
            IsLocalizedCallTo(id) =>
                /\ CallKey(id) \in SetAt(graph.specializations, unlocalize(id))
                /\ unlocalize(id) \in SetAt(graph.specialized_calls, CallKey(id))

NoSelfEdges ==
    /\ \A e \in Edges(graph) : e[1] # e[2]
    /\ \A v \in DOMAIN graph.backward_edges : v \notin graph.backward_edges[v]

\* C8: add_path with from.id = to.id changes nothing in the graph, and no
\* graph built by add_node, add_path and add_graph has an edge from a node
\* to itself.
C8_SelfLoopsDropped ==
    /\ []NoSelfEdges
    /\ [][(last'.op = "add_path" /\ last'.arg) => graph' = graph]_vars

C8_Witness ==
    /\ last.op = "add_path"
    /\ last.arg
    /\ Edges(graph) # {}

\* C9: add_graph on graphs of different kinds (FunctionBody against
\* WholeProgram, WholeProgram(Taint) against WholeProgram(Query)) fails
\* and leaves every field of the receiver as it was.
C9_MismatchedKindsRefused ==
    [][(last'.op = "add_graph" /\ last'.arg.kind # graph.kind)
          => (panicked' /\ graph' = graph)]_vars

C9_Witness ==
    /\ last.op = "add_graph"
    /\ panicked
    /\ IsWholeProgram(last.pre.kind)
    /\ IsWholeProgram(last.arg.kind)
    /\ Edges(last.arg) # {}
    /\ graph = last.pre

\* what C10 says of the receiver g2 = g.add_graph(h)
MapMerged(m, n, r) ==
    /\ \A k \in DOMAIN n : k \in DOMAIN r /\ r[k] = n[k]
    /\ \A k \in (DOMAIN m) \ (DOMAIN n) : k \in DOMAIN r /\ r[k] = m[k]

SetsMerged(m, n, r) ==
    \A k \in (DOMAIN m) \cup (DOMAIN n) :
        k \in DOMAIN r /\ r[k] = SetAt(m, k) \cup SetAt(n, k)

MergedAsClaimed(g, h, g2) ==
    /\ \A u \in (DOMAIN g.forward_edges) \cup (DOMAIN h.forward_edges) :
          /\ u \in DOMAIN g2.forward_edges
          /\ MapMerged(MapAt(g.forward_edges, u), MapAt(h.forward_edges, u),
                       g2.forward_edges[u])
    /\ MapMerged(g.vertices, h.vertices, g2.vertices)
    /\ MapMerged(g.sources, h.sources, g2.sources)
    /\ MapMerged(g.sinks, h.sinks, g2.sinks)
    /\ g.kind = FunctionBody =>
          /\ SetsMerged(g.backward_edges, h.backward_edges, g2.backward_edges)
          /\ SetsMerged(g.mixed_source_counts, h.mixed_source_counts,
                        g2.mixed_source_counts)
    /\ IsWholeProgram(g.kind) =>
          SetsMerged(g.specializations, h.specializations, g2.specializations)

\* C10: after add_graph(other) on graphs of equal kind the receiver holds
\* every forward edge, vertex, source and sink of both graphs, other's entry
\* where both define one; a function-body merge unions backward edges and
\* mixed-source position sets, a whole-program merge unions specializations.
C10_MergeUnions ==
    [][(last'.op = "add_graph" /\ ~panicked')
          => MergedAsClaimed(graph, last'.arg, graph')]_vars

\* a function-body merge where both graphs hold the same edge with different
\* labels, the same vertex id with different nodes and mixed-source
\* positions of the same call
C10_Witness ==
    /\ last.op = "add_graph"
    /\ ~panicked
    /\ graph.kind = FunctionBody
    /\ \E e \in Edges(last.pre) \cap Edges(last.arg) :
          last.pre.forward_edges[e[1]][e[2]] # last.arg.forward_edges[e[1]][e[2]]
    /\ \E k \in (DOMAIN last.pre.mixed_source_counts)
                    \cap (DOMAIN last.arg.mixed_source_counts) :
          last.pre.mixed_source_counts[k] # last.arg.mixed_source_counts[k]
    /\ \E id \in (DOMAIN last.pre.vertices) \cap (DOMAIN last.arg.vertices) :
          last.pre.vertices[id] # last.arg.vertices[id]

\* C11: the graph holds one edge per ordered pair of nodes: after
\* add_path(u, v, k2, ...) on a graph that has an edge u->v of kind k1,
\* forward_edges[u][v] has kind k2 and the added and removed taints of the
\* second call, and nothing of the first.
C11_LastPathWins ==
    (last.op = "add_path" /\ ~last.arg) =>
        /\ last.pre.from \in DOMAIN graph.forward_edges
        /\ last.pre.to \in DOMAIN graph.forward_edges[last.pre.from]
        /\ graph.forward_edges[last.pre.from][last.pre.to] = last.pre.path

\* add_path over an edge of another kind and other taints
C11_Witness ==
    /\ last.op = "add_path"
    /\ ~last.arg
    /\ \E first \in last.pre.before :
          /\ first.kind # last.pre.path.kind
          /\ first.added_taints # last.pre.path.added_taints
          /\ first.removed_taints # last.pre.path.removed_taints
    /\ graph.forward_edges[last.pre.from][last.pre.to].kind = last.pre.path.kind

\* what the claims about get_origin_nodes read of the graph searched
Resolves(g, id) == id \in DOMAIN g.vertices \/ id \in DOMAIN g.sources

IgnoredEdge(g, from_id, child_id, ignore_paths) ==
    /\ from_id \in DOMAIN g.forward_edges
    /\ child_id \in DOMAIN g.forward_edges[from_id]
    /\ g.forward_edges[from_id][child_id].kind \in ignore_paths

Searched == last.op = "get_origin_nodes"

\* C13: get_origin_nodes ends on every graph, graphs with cycles included:
\* it runs at most 50 rounds and expands each node id at most once.
C13_OriginSearchBounded ==
    Searched =>
        /\ last.arg.rounds <= MaxRounds
        /\ \A i, j \in 1..Len(last.arg.trace) :
              i # j => last.arg.trace[i].id # last.arg.trace[j].id

\* a search from a node on a cycle that reached two of its ancestors along
\* two routes and came back to the node it started from
C13_Witness ==
    /\ Searched
    /\ Len(last.arg.trace) >= 4
    /\ \E i \in 2..Len(last.arg.trace) :
          last.pre.node \in SetAt(graph.backward_edges, last.arg.trace[i].id)
    /\ \E i, j \in 1..Len(last.arg.trace), k \in 1..Len(last.arg.trace) :
          /\ i # j
          /\ last.arg.trace[k].id \in SetAt(graph.backward_edges, last.arg.trace[i].id)
          /\ last.arg.trace[k].id \in SetAt(graph.backward_edges, last.arg.trace[j].id)

\* C14: a parent reached through a forward edge of an ignored kind is not
\* followed, and the other parents of the same child, reached through edges
\* of other kinds, are followed, in whatever order the parents are
\* enumerated.
C14_IgnoredKindsSkipped ==
    Searched =>
        /\ \A i \in 1..Len(last.arg.trace) :
              \A p \in SetAt(graph.backward_edges, last.arg.trace[i].id) :
                  (/\ Resolves(graph, p)
                   /\ ~IgnoredEdge(graph, p, last.arg.trace[i].id, last.pre.ignore_paths))
                      => p \in last.arg.expanded
        /\ \A i \in 2..Len(last.arg.trace) :
              \E j \in 1..Len(last.arg.trace) :
                  /\ last.arg.trace[i].id \in SetAt(graph.backward_edges, last.arg.trace[j].id)
                  /\ ~IgnoredEdge(graph, last.arg.trace[i].id, last.arg.trace[j].id,
                                  last.pre.ignore_paths)

\* the parents of an expanded child that resolve to a node
ResolvedParents(id) == {p \in SetAt(graph.backward_edges, id) : Resolves(graph, p)}

Chars == <<" ", "\"", "$", "'", "-", "0", "1", "2", ":", ">", "[", "\\", "]",
           "a", "b", "c", "h", "i", "j", "k", "n", "s", "t">>

Code(c) == CHOOSE i \in 1..Len(Chars) : Chars[i] = c

\* str::cmp: lexicographic order, a proper prefix first
RECURSIVE StrLess(_, _)
StrLess(s, t) ==
    IF t = <<>> THEN FALSE
    ELSE IF s = <<>> THEN TRUE
    ELSE IF Head(s) = Head(t) THEN StrLess(Tail(s), Tail(t))
    ELSE Code(Head(s)) < Code(Head(t))

starts_with(s, prefix) ==
    Len(prefix) <= Len(s) /\ SubSeq(s, 1, Len(prefix)) = prefix

ends_with(s, suffix) ==
    Len(suffix) <= Len(s) /\ SubSeq(s, Len(s) - Len(suffix) + 1, Len(s)) = suffix

contains(s, sub) ==
    \E i \in 1..(Len(s) - Len(sub) + 1) : SubSeq(s, i, i + Len(sub) - 1) = sub

\* Vec<String>::join("")
RECURSIVE join(_)
join(parts) == IF parts = <<>> THEN <<>> ELSE Head(parts) \o join(Tail(parts))

\* str::replace(c, "") for a one-character pattern
remove_char(s, c) == SelectSeq(s, LAMBDA x : x # c)

reverse(s) == [i \in 1..Len(s) |-> s[Len(s) + 1 - i]]

\* the keys of a BTreeMap in iteration order
RECURSIVE SortedKeys(_)
SortedKeys(S) ==
    IF S = {} THEN <<>>
    ELSE LET m == CHOOSE x \in S : \A y \in S \ {x} : StrLess(x, y)
         IN <<m>> \o SortedKeys(S \ {m})

Digits == <<"0", "1", "2">>
IsDigit(c) == \E i \in 1..Len(Digits) : Digits[i] = c
DigitValue(c) == (CHOOSE i \in 1..Len(Digits) : Digits[i] = c) - 1

\* INTEGER_REGEX ^[0-9]+$ ; also when str::parse::<u32/usize>() is Ok (the
\* keys used are short, so the value fits; a leading "+" is not used)
is_integer(s) == s # <<>> /\ \A i \in 1..Len(s) : IsDigit(s[i])

RECURSIVE parse_int(_)
parse_int(s) ==
    IF s = <<>> THEN 0 ELSE parse_int(SubSeq(s, 1, Len(s) - 1)) * 10 + DigitValue(s[Len(s)])

(***************************************************************************)
(* break_up_path_into_parts: parts is a BTreeMap<usize, String>; its       *)
(* values, in key order, are the result.                                   *)
(***************************************************************************)
\* parts.insert(offset, c) without the characters the part already has
ReplaceAt(parts, offset, c) == MapPut(parts, offset, <<c>>)

AppendAt(parts, offset, c) ==
    MapPut(parts, offset, (IF offset \in DOMAIN parts THEN parts[offset] ELSE <<>>) \o <<c>>)

RECURSIVE MapValues(_, _)
MapValues(parts, keys) ==
    IF keys = {} THEN <<>>
    ELSE LET k == CHOOSE x \in keys : \A y \in keys : x <= y
         IN <<parts[k]>> \o MapValues(parts, keys \ {k})

\* the state of the scan: i is 1-based; string_char is {} or {quote}
RECURSIVE LexFrom(_, _, _, _, _, _, _)
LexFrom(chars, i, string_char, escape_char, brackets, parts, parts_offset) ==
    IF i > Len(chars)
    THEN MapValues(parts, DOMAIN parts)
    ELSE LET ichar == chars[i]
             char_count == Len(chars)
         IN IF string_char # {}
            THEN LexFrom(chars, i + 1,
                         IF ichar \in string_char /\ ~escape_char THEN {} ELSE string_char,
                         IF ichar = "\\" THEN ~escape_char ELSE escape_char,
                         brackets, AppendAt(parts, parts_offset, ichar), parts_offset)
            ELSE IF ichar \in {"[", "]"}
            THEN LexFrom(chars, i + 1, string_char, escape_char,
                         brackets + (IF ichar = "[" THEN 1 ELSE -1),
                         MapPut(parts, parts_offset + 1, <<ichar>>), parts_offset + 2)
            ELSE IF ichar \in {"'", "\""}
            THEN LexFrom(chars, i + 1, {ichar}, escape_char, brackets,
                         AppendAt(parts, parts_offset, ichar), parts_offset)
            ELSE IF /\ ichar = ":"
                    /\ brackets = 0
                    /\ i - 1 < char_count - 2
                    /\ chars[i + 1] = ":"
                    /\ chars[i + 2] = "$"
            THEN LexFrom(chars, i + 3, string_char, escape_char, brackets,
                         MapPut(parts, parts_offset + 1, <<":", ":", "$">>),
                         parts_offset + 2)
            ELSE IF /\ ichar = "-"
                    /\ brackets = 0
                    /\ i - 1 < char_count - 1
                    /\ chars[i + 1] = ">"
            THEN LexFrom(chars, i + 2, string_char, escape_char, brackets,
                         MapPut(parts, parts_offset + 1, <<"-", ">">>), parts_offset + 2)
            ELSE LexFrom(chars, i + 1, string_char, escape_char, brackets,
                         AppendAt(parts, parts_offset, ichar), parts_offset)

break_up_path_into_parts(path) ==
    LexFrom(path, 1, {}, FALSE, 0, MapPut(EmptyMap, 0, <<>>), 0)

(***************************************************************************)
(* Types.  A TAtomic is a record of its variant and the fields the         *)
(* reconciler reads; Option fields are sets of at most one element.  A     *)
(* TUnion is its atomics, in order, and its parent nodes, keyed by id.     *)
(***************************************************************************)
DictKeyString(s) == [kind |-> "String", str |-> s, int |-> 0]
DictKeyInt(n) == [kind |-> "Int", str |-> <<>>, int |-> n]

TAtomic(tag, name, known_items, params) ==
    [tag |-> tag, name |-> name, known_items |-> known_items, params |-> params]

TInt == TAtomic("TInt", <<>>, {}, {})
TString == TAtomic("TString", <<>>, {}, {})
TNull == TAtomic("TNull", <<>>, {}, {})
TNothing == TAtomic("TNothing", <<>>, {}, {})
TMixed == TAtomic("TMixed", <<>>, {}, {})
TMixedAny == TAtomic("TMixedAny", <<>>, {}, {})
TNamedObject(name) == TAtomic("TNamedObject", name, {}, {})
\* known_items: Option<BTreeMap<DictKey, (bool, TUnion)>>; params: the value
\* parameter of Option<(TUnion, TUnion)>
TDict(known_items, params) == TAtomic("TDict", <<>>, known_items, params)
TVec(known_items, type_param) == TAtomic("TVec", <<>>, known_items, {type_param})

TUnion(types, parent_nodes) == [types |-> types, parent_nodes |-> parent_nodes]

wrap_atomic(atomic) == TUnion(<<atomic>>, EmptyMap)
get_mixed_any == wrap_atomic(TMixedAny)
get_null == wrap_atomic(TNull)
get_string == wrap_atomic(TString)
get_nothing == wrap_atomic(TNothing)

SeqContains(seq, x) == \E i \in 1..Len(seq) : seq[i] = x
SeqSet(seq) == {seq[i] : i \in 1..Len(seq)}

IsMixedAtomic(a) == a.tag \in {"TMixed", "TMixedAny"}
is_nothing(u) == u.types = <<TNothing>>
is_mixed(u) == Len(u.types) = 1 /\ IsMixedAtomic(u.types[1])
is_nullable(u) == SeqContains(u.types, TNull)
is_some_scalar(a) == a.tag \in {"TInt", "TString"}

\* TUnion::add_type
add_type(u, atomic) == [u EXCEPT !.types = Append(@, atomic)]

\* TUnion == TUnion compares the atomics
UnionEq(a, b) == SeqSet(a.types) = SeqSet(b.types)

\* hakana_type::add_union_type(a, b, codebase, false)
add_union_type(a, b) ==
    LET parents == MapExtend(a.parent_nodes, b.parent_nodes)
        rest == SelectSeq(b.types, LAMBDA t : ~SeqContains(a.types, t))
    IN IF is_nothing(a) THEN TUnion(b.types, parents)
       ELSE IF is_nothing(b) THEN TUnion(a.types, parents)
       ELSE IF \E i \in 1..Len(a.types) : IsMixedAtomic(a.types[i])
       THEN TUnion(<<TMixedAny>>, parents)
       ELSE IF \E i \in 1..Len(b.types) : IsMixedAtomic(b.types[i])
       THEN TUnion(<<TMixedAny>>, parents)
       ELSE TUnion(a.types \o rest, parents)

\* the union of the known items' types, in key order
RECURSIVE CombineItems(_, _, _)
CombineItems(items, keys, acc) ==
    IF keys = {} THEN acc
    ELSE LET k == CHOOSE x \in keys : TRUE
         IN CombineItems(items, keys \ {k}, add_union_type(acc, items[k].type))

\* hakana_type::get_value_param: Option<TUnion>
get_value_param(atomic) ==
    IF atomic.tag \in {"TDict", "TVec"}
    THEN LET start == IF atomic.params = {} THEN get_nothing
                      ELSE CHOOSE v \in atomic.params : TRUE
         IN IF atomic.known_items = {} THEN {start}
            ELSE LET items == CHOOSE m \in atomic.known_items : TRUE
                 IN {CombineItems(items, DOMAIN items, start)}
    ELSE {}

\* scope_context::var_has_root
var_has_root(var_id, root_var_id) ==
    /\ starts_with(var_id, root_var_id)
    /\ Len(var_id) > Len(root_var_id)
    /\ var_id[Len(root_var_id) + 1] \in {"[", "-"}

\* DataFlowNode::get_for_assignment(var_id, assignment_location)
get_for_assignment(var_id, assignment_location) ==
    Node(NodeId("Var", var_id, assignment_location.file,
                assignment_location.start, assignment_location.end),
         "Vertex", {assignment_location}, {})

(***************************************************************************)
(* Assertions.                                                             *)
(***************************************************************************)
NoType == TAtomic("", <<>>, {}, {})

Assertion(kind, type, key, taints) ==
    [kind |-> kind, type |-> type, key |-> key, taints |-> taints]

IsType(t) == Assertion("IsType", t, <<>>, {})
IsNotType(t) == Assertion("IsNotType", t, <<>>, {})
IsEqual(t) == Assertion("IsEqual", t, <<>>, {})
Truthy == Assertion("Truthy", NoType, <<>>, {})
Falsy == Assertion("Falsy", NoType, <<>>, {})
IsIsset == Assertion("IsIsset", NoType, <<>>, {})
IsNotIsset == Assertion("IsNotIsset", NoType, <<>>, {})
IsEqualIsset == Assertion("IsEqualIsset", NoType, <<>>, {})
HasStringArrayAccess == Assertion("HasStringArrayAccess", NoType, <<>>, {})
HasIntOrStringArrayAccess == Assertion("HasIntOrStringArrayAccess", NoType, <<>>, {})
IgnoreTaints == Assertion("IgnoreTaints", NoType, <<>>, {})
DontIgnoreTaints == Assertion("DontIgnoreTaints", NoType, <<>>, {})
RemoveTaints(key, taints) == Assertion("RemoveTaints", NoType, key, taints)

has_negation(a) == a.kind \in {"IsNotType", "IsNotEqual", "Falsy", "IsNotIsset"}
has_isset(a) == a.kind \in {"IsIsset", "IsEqualIsset", "HasStringArrayAccess"}
has_non_isset_equality(a) ==
    a.kind \in {"IsEqual", "HasStringArrayAccess", "HasIntOrStringArrayAccess"}

\* assertion_reconciler::get_missing_type: the type of a path that has none
get_missing_type(assertion) ==
    IF assertion.kind = "IsType" THEN wrap_atomic(assertion.type) ELSE get_mixed_any

\* whether the asserted atomic accepts an atomic of the existing type
AtomicMatches(t, a) == a.tag = t.tag /\ a.name = t.name

RECURSIVE Dedup(_)
Dedup(seq) ==
    IF seq = <<>> THEN <<>>
    ELSE LET init == Dedup(SubSeq(seq, 1, Len(seq) - 1))
         IN IF SeqContains(init, seq[Len(seq)]) THEN init ELSE Append(init, seq[Len(seq)])

\* the atomics of the existing type an assertion leaves
ReconciledAtomics(assertion, types) ==
    LET kind == assertion.kind
        t == assertion.type
    IN CASE kind \in {"IsType", "IsEqual"} ->
              LET sel == SelectSeq(types, LAMBDA a : IsMixedAtomic(a) \/ AtomicMatches(t, a))
              IN Dedup([i \in 1..Len(sel) |-> IF IsMixedAtomic(sel[i]) THEN t ELSE sel[i]])
         [] kind = "IsNotType" -> SelectSeq(types, LAMBDA a : ~AtomicMatches(t, a))
         [] kind \in {"Truthy", "IsIsset", "IsEqualIsset"} ->
              SelectSeq(types, LAMBDA a : a # TNull)
         [] kind = "Falsy" -> SelectSeq(types, LAMBDA a : a.tag # "TNamedObject")
         [] kind = "IsNotIsset" -> <<TNull>>
         [] kind = "HasStringArrayAccess" ->
              SelectSeq(types, LAMBDA a : IsMixedAtomic(a) \/ a.tag = "TDict")
         [] kind = "HasIntOrStringArrayAccess" ->
              SelectSeq(types, LAMBDA a : IsMixedAtomic(a) \/ a.tag \in {"TDict", "TVec"})
         [] OTHER -> types

\* assertion_reconciler::reconcile: the refined type (which may have no
\* atomic) and the new value of failed_reconciliation
reconcile(assertion, existing_var_type, failed_reconciliation) ==
    IF existing_var_type = {}
    THEN [type |-> get_missing_type(assertion), failed |-> failed_reconciliation]
    ELSE LET existing == CHOOSE u \in existing_var_type : TRUE
             types == ReconciledAtomics(assertion, existing.types)
         IN [type |-> TUnion(types, existing.parent_nodes),
             failed |->
                 IF types = <<>> THEN "Empty"
                 ELSE IF /\ assertion.kind \in {"IsType", "IsEqual", "IsNotType", "Truthy", "Falsy"}
                         /\ SeqSet(types) = SeqSet(existing.types)
                 THEN "Redundant"
                 ELSE failed_reconciliation]

(***************************************************************************)
(* The codebase the reconciler consults.                                   *)
(***************************************************************************)
ClassC == <<"c">>
PropB == <<"b">>

\* the declared property types, by class and property name
PropertyTypes == MapPut(EmptyMap, <<ClassC, PropB>>, TUnion(<<TString, TNull>>, EmptyMap))

class_or_interface_exists(name) == name = ClassC

\* no class of the codebase declares a constant
get_class_constant_type(fq_class_name, const_name) == {}

get_property_type(classlike_name, property_name) ==
    IF <<classlike_name, property_name>> \in DOMAIN PropertyTypes
    THEN {PropertyTypes[<<classlike_name, property_name>>]}
    ELSE {}

\* str::split("::"): the pieces of s between the occurrences of "::"
RECURSIVE split_colons(_, _)
split_colons(s, piece) ==
    IF s = <<>> THEN <<piece>>
    ELSE IF starts_with(s, <<":", ":">>)
    THEN <<piece>> \o split_colons(SubSeq(s, 3, Len(s)), <<>>)
    ELSE split_colons(Tail(s), Append(piece, Head(s)))

(***************************************************************************)
(* add_nested_assertions                                                   *)
(***************************************************************************)
\* the assertion put in place of what the batch holds for the key
ReplaceAssertions(new_types, key, assertion) == MapPut(new_types, key, <<<<assertion>>>>)

PushAssertion(new_types, key, assertion) ==
    MapPut(new_types, key,
           (IF key \in DOMAIN new_types THEN new_types[key] ELSE <<>>) \o <<<<assertion>>>>)

\* the while loop over the remaining key parts (front first)
RECURSIVE NestedWalk(_, _, _)
NestedWalk(new_types, base_key, key_parts) ==
    IF key_parts = <<>> THEN new_types
    ELSE LET divider == Head(key_parts)
         IN IF divider = <<"[">>
            THEN LET array_key == key_parts[2]
                 IN NestedWalk(PushAssertion(new_types, base_key,
                                   IF contains(array_key, <<"'">>)
                                   THEN HasStringArrayAccess
                                   ELSE HasIntOrStringArrayAccess),
                               base_key \o <<"[">> \o array_key \o <<"]">>,
                               SubSeq(key_parts, 4, Len(key_parts)))
            ELSE IF divider = <<"-", ">">>
            THEN LET property_name == key_parts[2]
                 IN NestedWalk(IF base_key \in DOMAIN new_types THEN new_types
                               ELSE MapPut(new_types, base_key, <<<<IsIsset>>>>),
                               base_key \o <<"-", ">">> \o property_name,
                               SubSeq(key_parts, 3, Len(key_parts)))
            ELSE new_types

\* one entry (nk, new_type) of the batch as it was on entry
NestedFor(new_types, nk, new_type, vars_in_scope) ==
    IF /\ contains(nk, <<"[">>) \/ contains(nk, <<"-", ">">>)
       /\ new_type[1][1] \in {IsEqualIsset, IsIsset}
    THEN LET parts == break_up_path_into_parts(nk)
             merge == /\ ~starts_with(parts[1], <<"$">>)
                      /\ Len(parts) - 1 > 2
                      /\ parts[2] = <<":", ":", "$">>
             base_key == IF merge THEN parts[1] \o parts[2] \o parts[3] ELSE parts[1]
             key_parts == SubSeq(parts, IF merge THEN 4 ELSE 2, Len(parts))
             rooted ==
                 IF \/ base_key \notin DOMAIN vars_in_scope
                    \/ is_nullable(vars_in_scope[base_key])
                 THEN PushAssertion(new_types, base_key, IsEqualIsset)
                 ELSE new_types
         IN NestedWalk(rooted, base_key, key_parts)
    ELSE new_types

RECURSIVE NestedAll(_, _, _, _)
NestedAll(new_types, original, keys, vars_in_scope) ==
    IF keys = <<>> THEN new_types
    ELSE NestedAll(NestedFor(new_types, Head(keys), original[Head(keys)], vars_in_scope),
                   original, Tail(keys), vars_in_scope)

add_nested_assertions(new_types, vars_in_scope) ==
    NestedAll(new_types, new_types, SortedKeys(DOMAIN new_types), vars_in_scope)

(***************************************************************************)
(* get_value_for_key.  The scope state it works on is a record st of       *)
(* vars_in_scope, added_var_ids, possibly_undefined and panic; a step      *)
(* returns [done, result, st], done meaning that the function returned.    *)
(***************************************************************************)
Step(done, result, st) == [done |-> done, result |-> result, st |-> st]

\* the candidate of a dict or vec atomic without a known item for the key,
\* leaving possibly_undefined as it is
ValueParamCandidateDefined(part, st, new_base_key, key, new_assertions, isset, inverted) ==
    LET candidate == CHOOSE v \in get_value_param(part) : TRUE
        asserted == (isset \/ inverted) /\ new_base_key \in DOMAIN new_assertions
    IN [type |-> IF asserted /\ inverted /\ new_base_key = key
                 THEN add_type(candidate, TNull) ELSE candidate,
        possibly_undefined |-> st.possibly_undefined]

\* the candidate of a dict or vec atomic without a known item for the key
ValueParamCandidate(part, st, new_base_key, key, new_assertions, isset, inverted) ==
    LET candidate == CHOOSE v \in get_value_param(part) : TRUE
        asserted == (isset \/ inverted) /\ new_base_key \in DOMAIN new_assertions
    IN [type |-> IF asserted /\ inverted /\ new_base_key = key
                 THEN add_type(candidate, TNull) ELSE candidate,
        possibly_undefined |-> IF asserted THEN TRUE ELSE st.possibly_undefined]

\* the type and possibly_undefined an atomic of the base gives for the key:
\* a set with one candidate, or the empty set when the function returns
ArrayCandidate(part, st, array_key, new_base_key, key, new_assertions, isset, inverted) ==
    IF part.tag = "TDict"
    THEN LET dictkey == DictKeyString(remove_char(array_key, "'"))
             found == /\ ~starts_with(array_key, <<"$">>)
                      /\ part.known_items # {}
                      /\ dictkey \in DOMAIN (CHOOSE m \in part.known_items : TRUE)
         IN IF found
            THEN LET item == (CHOOSE m \in part.known_items : TRUE)[dictkey]
                 IN {[type |-> item.type,
                      possibly_undefined |-> IF item.pu THEN TRUE ELSE st.possibly_undefined]}
            ELSE IF /\ is_mixed(CHOOSE v \in get_value_param(part) : TRUE)
                    /\ ~isset
                    /\ ~inverted
            THEN {}
            ELSE {ValueParamCandidate(part, st, new_base_key, key, new_assertions, isset, inverted)}
    ELSE IF part.tag = "TVec"
    THEN LET index == DictKeyInt(parse_int(array_key))
             found == /\ is_integer(array_key)
                      /\ part.known_items # {}
                      /\ index \in DOMAIN (CHOOSE m \in part.known_items : TRUE)
         IN IF found
            THEN LET item == (CHOOSE m \in part.known_items : TRUE)[index]
                 IN {[type |-> item.type, possibly_undefined |-> item.pu]}
            ELSE {ValueParamCandidate(part, st, new_base_key, key, new_assertions, isset, inverted)}
    ELSE {}

\* what the function returns when an atomic of the base gives no candidate
ArrayReturn(part) ==
    IF part.tag = "TDict" THEN CHOOSE v \in get_value_param(part) : TRUE
    ELSE IF part.tag = "TString" THEN get_string
    ELSE IF part.tag = "TNothing" THEN wrap_atomic(TMixed)
    ELSE get_mixed_any

\* the loop over the atomics of the base type, in order
RECURSIVE ArrayAtomics(_, _, _, _, _, _, _, _, _)
RECURSIVE ArrayAtomic(_, _, _, _, _, _, _, _, _, _)

\* one atomic of the base type, with the candidates it gives
ArrayAtomic(atomic_types, new_base_type, st, array_key, new_base_key, key, new_assertions, isset, inverted, candidates) ==
    IF candidates = {} THEN Step(TRUE, {ArrayReturn(Head(atomic_types))}, st)
    ELSE LET c == CHOOSE x \in candidates : TRUE
             joined == IF new_base_type = {} THEN c.type
                       ELSE add_union_type(CHOOSE u \in new_base_type : TRUE, c.type)
         IN ArrayAtomics(Tail(atomic_types), {joined},
                         [st EXCEPT
                            !.possibly_undefined = c.possibly_undefined,
                            !.added_var_ids =
                                IF starts_with(array_key, <<"$">>) THEN @
                                ELSE @ \cup {new_base_key},
                            !.vars_in_scope = MapPut(@, new_base_key, joined)],
                         array_key, new_base_key, key, new_assertions, isset, inverted)

ArrayAtomics(atomic_types, new_base_type, st, array_key, new_base_key, key, new_assertions, isset, inverted) ==
    IF atomic_types = <<>> THEN Step(FALSE, {}, st)
    ELSE ArrayAtomic(atomic_types, new_base_type, st, array_key, new_base_key, key,
                     new_assertions, isset, inverted,
                     ArrayCandidate(Head(atomic_types), st, array_key, new_base_key, key,
                                    new_assertions, isset, inverted))

\* the property type an atomic of the base gives: types holds one type, or
\* none when the function returns None; panic is the memoised-call case
PropertyCandidate(part, property_name) ==
    IF part.tag = "TNull" THEN [panic |-> FALSE, types |-> {get_null}]
    ELSE IF part.tag = "TNamedObject" /\ class_or_interface_exists(part.name)
    THEN IF ends_with(property_name, <<"(", ")">>) THEN [panic |-> TRUE, types |-> {}]
         ELSE [panic |-> FALSE, types |-> get_property_type(part.name, property_name)]
    ELSE [panic |-> FALSE, types |-> {get_mixed_any}]

\* the loop over the atomics of the base type, last first
RECURSIVE PropertyAtomics(_, _, _, _, _)
PropertyAtomics(atomic_types, new_base_type, st, property_name, new_base_key) ==
    IF atomic_types = <<>> THEN Step(FALSE, {}, st)
    ELSE LET part == atomic_types[Len(atomic_types)]
             candidate == PropertyCandidate(part, property_name)
         IN IF candidate.panic THEN Step(TRUE, {}, [st EXCEPT !.panic = TRUE])
            ELSE IF candidate.types = {} THEN Step(TRUE, {}, st)
            ELSE LET c == CHOOSE x \in candidate.types : TRUE
                     joined == IF new_base_type = {} THEN c
                               ELSE add_union_type(CHOOSE u \in new_base_type : TRUE, c)
                 IN PropertyAtomics(SubSeq(atomic_types, 1, Len(atomic_types) - 1),
                                    {joined},
                                    [st EXCEPT !.vars_in_scope = MapPut(@, new_base_key, joined)],
                                    property_name, new_base_key)

\* the while loop over the remaining key parts (front first)
RECURSIVE ValueWalk(_, _, _, _, _, _, _)
RECURSIVE AfterStep(_, _, _, _, _, _, _)

\* the loop goes on after the step unless the function returned in it
AfterStep(step, base_key, key_parts, key, new_assertions, isset, inverted) ==
    IF step.done THEN step
    ELSE ValueWalk(step.st, base_key, key_parts, key, new_assertions, isset, inverted)

ValueWalk(st, base_key, key_parts, key, new_assertions, isset, inverted) ==
    IF key_parts = <<>>
    THEN Step(TRUE, IF base_key \in DOMAIN st.vars_in_scope
                    THEN {st.vars_in_scope[base_key]} ELSE {}, st)
    ELSE IF Head(key_parts) = <<"[">>
    THEN AfterStep(
             IF (base_key \o <<"[">> \o key_parts[2] \o <<"]">>) \in DOMAIN st.vars_in_scope
             THEN Step(FALSE, {}, st)
             ELSE ArrayAtomics(st.vars_in_scope[base_key].types, {}, st, key_parts[2],
                               base_key \o <<"[">> \o key_parts[2] \o <<"]">>, key,
                               new_assertions, isset, inverted),
             base_key \o <<"[">> \o key_parts[2] \o <<"]">>,
             SubSeq(key_parts, 4, Len(key_parts)), key, new_assertions, isset, inverted)
    ELSE IF Head(key_parts) \in {<<"-", ">">>, <<":", ":", "$">>}
    THEN AfterStep(
             IF (base_key \o <<"-", ">">> \o key_parts[2]) \in DOMAIN st.vars_in_scope
             THEN Step(FALSE, {}, st)
             ELSE PropertyAtomics(st.vars_in_scope[base_key].types, {}, st, key_parts[2],
                                  base_key \o <<"-", ">">> \o key_parts[2]),
             base_key \o <<"-", ">">> \o key_parts[2],
             SubSeq(key_parts, 3, Len(key_parts)), key, new_assertions, isset, inverted)
    ELSE Step(TRUE, {}, st)

\* the walk from the base key, once it is known to be in scope
ValueFrom(parts, merge, key, st, new_assertions, isset, inverted) ==
    LET base_key == IF merge THEN parts[1] \o parts[2] \o parts[3] ELSE parts[1]
        key_parts == SubSeq(parts, IF merge THEN 4 ELSE 2, Len(parts))
        base_key_parts == split_colons(base_key, <<>>)
        class_constant ==
            IF class_or_interface_exists(base_key_parts[1])
            THEN get_class_constant_type(base_key_parts[1], base_key_parts[2])
            ELSE {}
    IN IF base_key \notin DOMAIN st.vars_in_scope
          /\ ~(contains(base_key, <<":", ":">>) /\ class_constant # {})
       THEN Step(TRUE, {}, st)
       ELSE ValueWalk(IF base_key \in DOMAIN st.vars_in_scope THEN st
                      ELSE [st EXCEPT !.vars_in_scope =
                               MapPut(@, base_key, CHOOSE u \in class_constant : TRUE)],
                      base_key, key_parts, key, new_assertions, isset, inverted)

\* the function once the path is broken up into parts
ValueForParts(parts, key, st, new_assertions, isset, inverted) ==
    IF Len(parts) = 1
    THEN Step(TRUE, IF key \in DOMAIN st.vars_in_scope
                    THEN {st.vars_in_scope[key]} ELSE {}, st)
    ELSE ValueFrom(parts,
                   /\ ~starts_with(parts[1], <<"$">>)
                   /\ Len(parts) - 1 > 2
                   /\ starts_with(parts[2], <<":", ":", "$">>),
                   key, st, new_assertions, isset, inverted)

\* returns [done, result, st]; result is the Option<TUnion> returned
get_value_for_key(key, st, new_assertions, isset, inverted) ==
    ValueForParts(break_up_path_into_parts(key), key, st, new_assertions, isset, inverted)

(***************************************************************************)
(* adjust_array_type: returns the new vars_in_scope and changed_var_ids    *)
(***************************************************************************)
\* the known item written as one that may be absent
SetKnownItemPossiblyUndefined(atomic, dictkey, result_type) ==
    [atomic EXCEPT !.known_items =
        {MapPut(IF @ = {} THEN EmptyMap ELSE CHOOSE m \in @ : TRUE,
                dictkey, [pu |-> TRUE, type |-> result_type])}]

SetKnownItem(atomic, dictkey, result_type) ==
    [atomic EXCEPT !.known_items =
        {MapPut(IF @ = {} THEN EmptyMap ELSE CHOOSE m \in @ : TRUE,
                dictkey, [pu |-> FALSE, type |-> result_type])}]

RECURSIVE adjust_array_type(_, _, _, _)
RECURSIVE AdjustAtomics(_, _, _, _, _, _, _, _)

\* the loop over the atomics of the base type; types is the base type's
\* atomics as adjusted so far
AdjustAtomics(types, i, vars_in_scope, changed_var_ids, key_parts, array_key, base_key, result_type) ==
    IF i > Len(types)
    THEN [types |-> types, vars_in_scope |-> vars_in_scope, changed_var_ids |-> changed_var_ids]
    ELSE LET base_atomic_type == types[i]
             has_string_offset ==
                 starts_with(array_key, <<"'">>) \/ starts_with(array_key, <<"\"">>)
             arraykey_offset ==
                 IF has_string_offset THEN SubSeq(array_key, 2, Len(array_key) - 1)
                 ELSE array_key
             skipped ==
                 \/ base_atomic_type.tag \notin {"TDict", "TVec"}
                 \/ /\ base_atomic_type.tag = "TDict"
                    /\ ~has_string_offset
                    /\ ~is_integer(arraykey_offset)
             adjusted ==
                 IF base_atomic_type.tag = "TDict"
                 THEN SetKnownItem(base_atomic_type,
                                   IF has_string_offset THEN DictKeyString(arraykey_offset)
                                   ELSE DictKeyInt(parse_int(arraykey_offset)),
                                   result_type)
                 ELSE IF is_integer(arraykey_offset)
                 THEN SetKnownItem(base_atomic_type,
                                   DictKeyInt(parse_int(arraykey_offset)), result_type)
                 ELSE base_atomic_type
             changed == changed_var_ids \cup {base_key \o <<"[">> \o array_key \o <<"]">>}
             nested ==
                 IF key_parts # <<>> /\ key_parts[Len(key_parts)] = <<"]">>
                 THEN adjust_array_type(key_parts, vars_in_scope, changed, wrap_atomic(adjusted))
                 ELSE [vars_in_scope |-> vars_in_scope, changed_var_ids |-> changed]
         IN IF skipped
            THEN AdjustAtomics(types, i + 1, vars_in_scope, changed_var_ids, key_parts,
                               array_key, base_key, result_type)
            ELSE AdjustAtomics([types EXCEPT ![i] = adjusted], i + 1, nested.vars_in_scope,
                               nested.changed_var_ids, key_parts, array_key, base_key,
                               result_type)

adjust_array_type(all_parts, vars_in_scope, changed_var_ids, result_type) ==
    LET array_key == all_parts[Len(all_parts) - 1]
        key_parts == SubSeq(all_parts, 1, Len(all_parts) - 3)
        base_key == join(key_parts)
        unchanged == [vars_in_scope |-> vars_in_scope, changed_var_ids |-> changed_var_ids]
    IN IF starts_with(array_key, <<"$">>) THEN unchanged
       ELSE IF base_key \notin DOMAIN vars_in_scope THEN unchanged
       ELSE LET existing_type == vars_in_scope[base_key]
                r == AdjustAtomics(existing_type.types, 1, vars_in_scope, changed_var_ids,
                                   key_parts, array_key, base_key, result_type)
            IN [vars_in_scope |->
                    MapPut(r.vars_in_scope, base_key, [existing_type EXCEPT !.types = r.types]),
                changed_var_ids |-> r.changed_var_ids]

(***************************************************************************)
(* reconcile_keyed_types.  The state it works on is a record rs of         *)
(* vars_in_scope, allow_taints, the data-flow graph, changed_var_ids,      *)
(* added_var_ids, panic, and a log with one entry per reconciled key.      *)
(***************************************************************************)
MapWithout(m, keys) == [x \in (DOMAIN m) \ keys |-> m[x]]

TaintsKey == <<"h", "a", "k", "a", "n", "a", " ", "t", "a", "i", "n", "t", "s">>
ThisKey == <<"$", "t", "h", "i", "s">>

\* a path from each of the nodes to the node `to`
RECURSIVE add_paths_to(_, _, _, _, _, _)
add_paths_to(g, nodes, to, path_kind, added_taints, removed_taints) ==
    IF nodes = {} THEN g
    ELSE LET n == CHOOSE x \in nodes : TRUE
         IN add_paths_to(add_path(g, n, to, path_kind, added_taints, removed_taints),
                         nodes \ {n}, to, path_kind, added_taints, removed_taints)

MapRange(m) == {m[x] : x \in DOMAIN m}

\* taints once ignored stay ignored
TaintsLeftIgnored(rs, assertion, pos) ==
    IF assertion.kind = "IgnoreTaints" THEN [rs EXCEPT !.allow_taints = FALSE] ELSE rs

\* the RemoveTaints / IgnoreTaints / DontIgnoreTaints arm of the match
TaintAssertion(rs, assertion, pos) ==
    IF assertion.kind = "RemoveTaints" /\ assertion.key \in DOMAIN rs.vars_in_scope
    THEN LET existing_var_type == rs.vars_in_scope[assertion.key]
             new_parent_node == get_for_assignment(assertion.key, pos)
         IN [rs EXCEPT
               !.graph = add_node(add_paths_to(@, MapRange(existing_var_type.parent_nodes),
                                               new_parent_node, PKDefault, {},
                                               assertion.taints),
                                  new_parent_node),
               !.vars_in_scope =
                   MapPut(@, assertion.key,
                          [existing_var_type EXCEPT !.parent_nodes =
                              MapPut(EmptyMap, new_parent_node.id, new_parent_node)])]
    ELSE IF assertion.kind = "IgnoreTaints" THEN [rs EXCEPT !.allow_taints = FALSE]
    ELSE IF assertion.kind = "DontIgnoreTaints" THEN [rs EXCEPT !.allow_taints = TRUE]
    ELSE rs

RECURSIVE TaintAssertions(_, _, _)
TaintAssertions(rs, assertions, pos) ==
    IF assertions = <<>> THEN rs
    ELSE TaintAssertions(TaintAssertion(rs, Head(assertions), pos), Tail(assertions), pos)

\* all the assertions of an entry, in order
Flatten(new_type_parts) == join(new_type_parts)

\* the candidate stored as reconcile returned it
keep_empty_candidate(candidate) == candidate

\* an emptied candidate becomes nothing
nothing_if_empty(candidate) ==
    IF candidate.types = <<>> THEN [candidate EXCEPT !.types = <<TNothing>>] ELSE candidate

\* one disjunct: the assertions are reconciled against result_type and their
\* results joined; r is [orred, failed, emptied]
RECURSIVE OrAssertions(_, _, _)
OrAssertions(assertions, result_type, r) ==
    IF assertions = <<>> THEN r
    ELSE LET rec == reconcile(Head(assertions), result_type, r.failed)
             candidate == nothing_if_empty(rec.type)
         IN OrAssertions(Tail(assertions), result_type,
                [orred |-> IF r.orred = {} THEN {candidate}
                           ELSE {add_union_type(candidate, CHOOSE u \in r.orred : TRUE)},
                 failed |-> rec.failed,
                 emptied |-> r.emptied \/ rec.type.types = <<>>])

\* the conjunction of the disjuncts; r is [type, failed, emptied]
RECURSIVE AndParts(_, _)
AndParts(new_type_parts, r) ==
    IF new_type_parts = <<>> THEN r
    ELSE LET o == OrAssertions(Head(new_type_parts), r.type,
                               [orred |-> {}, failed |-> r.failed, emptied |-> r.emptied])
         IN AndParts(Tail(new_type_parts),
                     [type |-> o.orred, failed |-> o.failed, emptied |-> o.emptied])

has_scalar_restriction(new_type_parts) ==
    \E i \in 1..Len(new_type_parts) :
        /\ Len(new_type_parts[i]) = 1
        /\ new_type_parts[i][1].kind \in {"IsType", "IsEqual"}
        /\ is_some_scalar(new_type_parts[i][1].type)

\* the guard whose node is never added to the graph
scalar_type_guard_unregistered(g, parent_nodes, key, pos) ==
    LET scalar_check_node == get_for_assignment(key, pos)
    IN [graph |-> add_paths_to(g, MapRange(parent_nodes), scalar_check_node,
                               PKScalarTypeGuard, {}, {}),
        parent_nodes |-> MapPut(EmptyMap, scalar_check_node.id, scalar_check_node)]

\* the scalar type guard: the graph and the parent nodes of the result
scalar_type_guard(g, parent_nodes, key, pos) ==
    LET scalar_check_node == get_for_assignment(key, pos)
    IN [graph |-> add_node(add_paths_to(g, MapRange(parent_nodes), scalar_check_node,
                                        PKScalarTypeGuard, {}, {}),
                           scalar_check_node),
        parent_nodes |-> MapPut(EmptyMap, scalar_check_node.id, scalar_check_node)]

\* the parent nodes an edge to the guard node is added from
GuardedParents(parent_nodes, key, pos) ==
    {id \in DOMAIN parent_nodes : id # get_for_assignment(key, pos).id}

\* has_negation, has_isset, ... of the loop over the assertions of the entry
Flags(key, new_type_parts) ==
    LET assertions == IF key = TaintsKey THEN <<>> ELSE Flatten(new_type_parts)
        Some(P(_)) == \E i \in 1..Len(assertions) : P(assertions[i])
    IN [negation |-> Some(has_negation),
        isset |-> Some(has_isset),
        inverted_isset |-> Some(LAMBDA a : a = IsNotIsset),
        falsyish |-> Some(LAMBDA a : a = Falsy),
        is_equality |-> Some(has_non_isset_equality)]

\* the end of the loop body: related paths are removed and the result stored.
\* in is the entry and the arguments of the call, r the values of the body:
\* did_type_exist, before_adjustment, failed, emptied, guarded, result_type
ReconcileStore(rs, in, r, adjusted) ==
    LET key == in.key
        type_changed == r.before_adjustment = {}
                           \/ ~UnionEq(r.result_type, CHOOSE u \in r.before_adjustment : TRUE)
        is_real == (IF key \in DOMAIN in.old_new_types THEN in.old_new_types[key] ELSE <<>>)
                       = in.new_type_parts
        narrowed == type_changed \/ r.failed # "Ok"
        removable_keys ==
            IF narrowed /\ key # ThisKey /\ ~ends_with(key, <<"]">>)
            THEN {new_key \in DOMAIN adjusted.vars_in_scope :
                     /\ new_key # key
                     /\ is_real
                     /\ new_key \notin DOMAIN in.new_types
                     /\ var_has_root(new_key, key)}
            ELSE {}
        pre_parents == IF r.before_adjustment = {} THEN EmptyMap
                       ELSE (CHOOSE u \in r.before_adjustment : TRUE).parent_nodes
        entry == [key |-> key,
                  narrowed |-> narrowed,
                  emptied |-> r.emptied,
                  guard_edges |-> IF r.guarded THEN GuardedParents(pre_parents, key, in.pos)
                                  ELSE {},
                  pre_parents |-> DOMAIN pre_parents,
                  post_parents |-> DOMAIN r.result_type.parent_nodes,
                  in_batch |-> key \in DOMAIN in.old_new_types,
                  mentioned |-> DOMAIN in.new_types,
                  scope |-> DOMAIN adjusted.vars_in_scope,
                  removed |-> removable_keys,
                  result |-> r.result_type]
    IN [rs EXCEPT
          !.vars_in_scope =
              MapPut(MapWithout(adjusted.vars_in_scope, removable_keys), key, r.result_type),
          !.changed_var_ids =
              IF narrowed \/ (~in.flags.negation /\ ~in.flags.falsyish /\ ~in.flags.isset)
              THEN adjusted.changed_var_ids \cup {key}
              ELSE adjusted.changed_var_ids,
          !.log = Append(@, entry)]

\* the refinement of a path ending in "]" is lifted into its base
ReconcileAdjust(rs, in, r) ==
    ReconcileStore(rs, in, r,
        IF /\ ends_with(in.key, <<"]">>)
           /\ \/ ~r.did_type_exist
              \/ r.before_adjustment = {}
              \/ ~UnionEq(r.result_type, CHOOSE u \in r.before_adjustment : TRUE)
           /\ ~in.flags.inverted_isset
           /\ ~in.flags.is_equality
        THEN adjust_array_type(break_up_path_into_parts(in.key), rs.vars_in_scope,
                               rs.changed_var_ids, r.result_type)
        ELSE [vars_in_scope |-> rs.vars_in_scope, changed_var_ids |-> rs.changed_var_ids])

\* the parent nodes of the result: provenance is the graph and the parent
\* nodes the guard gives, or the graph as it is and the parent nodes before
ReconcileProvenance(rs, in, r, reconciled, provenance) ==
    ReconcileAdjust([rs EXCEPT !.graph = provenance.graph], in,
        [did_type_exist |-> r.did_type_exist,
         before_adjustment |-> r.before_adjustment,
         failed |-> r.failed,
         emptied |-> r.emptied,
         guarded |-> r.guarded,
         result_type |-> [reconciled EXCEPT !.parent_nodes = provenance.parent_nodes]])

\* the body after the assertions were reconciled; anded is [type, failed,
\* emptied]
ReconcileResult(rs, in, did_type_exist, before_adjustment, anded) ==
    IF \/ \E u \in before_adjustment : u.types = <<>>
       \/ anded.type = {}
    THEN [rs EXCEPT !.panic = TRUE]
    ELSE IF ~did_type_exist /\ is_nothing(CHOOSE u \in anded.type : TRUE)
    THEN rs
    ELSE LET guarded == /\ before_adjustment # {}
                        /\ IsWholeProgram(rs.graph.kind)
                        /\ has_scalar_restriction(in.new_type_parts)
         IN ReconcileProvenance(rs, in,
                [did_type_exist |-> did_type_exist,
                 before_adjustment |-> before_adjustment,
                 failed |-> anded.failed,
                 emptied |-> anded.emptied,
                 guarded |-> guarded],
                CHOOSE u \in anded.type : TRUE,
                IF guarded
                THEN scalar_type_guard(rs.graph,
                         (CHOOSE u \in before_adjustment : TRUE).parent_nodes,
                         in.key, in.pos)
                ELSE [graph |-> rs.graph,
                      parent_nodes |->
                          IF before_adjustment = {}
                          THEN (CHOOSE u \in anded.type : TRUE).parent_nodes
                          ELSE (CHOOSE u \in before_adjustment : TRUE).parent_nodes])

\* the body once the type of the key was fetched (a Step of get_value_for_key)
ReconcileFetched(rs, in, did_type_exist, fetched) ==
    IF fetched.st.panic THEN [rs EXCEPT !.panic = TRUE]
    ELSE ReconcileResult([rs EXCEPT !.vars_in_scope = fetched.st.vars_in_scope,
                                    !.added_var_ids = fetched.st.added_var_ids],
                         in, did_type_exist, fetched.result,
                         AndParts(in.new_type_parts,
                                  [type |-> fetched.result, failed |-> "Ok",
                                   emptied |-> FALSE]))

\* the body after the taint assertions
ReconcileFetch(rs, in) ==
    ReconcileFetched(rs, in, in.key \in DOMAIN rs.vars_in_scope,
        IF in.key \in DOMAIN rs.vars_in_scope
        THEN Step(TRUE, {rs.vars_in_scope[in.key]},
                  [vars_in_scope |-> rs.vars_in_scope,
                   added_var_ids |-> rs.added_var_ids,
                   possibly_undefined |-> FALSE, panic |-> FALSE])
        ELSE get_value_for_key(in.key,
                  [vars_in_scope |-> rs.vars_in_scope,
                   added_var_ids |-> rs.added_var_ids,
                   possibly_undefined |-> FALSE, panic |-> FALSE],
                  in.new_types, in.flags.isset, in.flags.inverted_isset))

\* the body of the loop for one (key, new_type_parts) of the expanded batch
ReconcileKey(rs, key, new_type_parts, new_types, old_new_types, pos) ==
    IF contains(key, <<":", ":">>) /\ ~contains(key, <<"$">>) /\ ~contains(key, <<"[">>)
    THEN rs
    ELSE ReconcileFetch(
             IF key = TaintsKey
             THEN TaintAssertions(rs, Flatten(new_type_parts), pos)
             ELSE rs,
             [key |-> key, new_type_parts |-> new_type_parts, new_types |-> new_types,
              old_new_types |-> old_new_types, pos |-> pos,
              flags |-> Flags(key, new_type_parts)])

RECURSIVE ReconcileKeys(_, _, _, _, _)
ReconcileKeys(rs, keys, new_types, old_new_types, pos) ==
    IF keys = <<>> \/ rs.panic THEN rs
    ELSE ReconcileKeys(ReconcileKey(rs, Head(keys), new_types[Head(keys)], new_types,
                                    old_new_types, pos),
                       Tail(keys), new_types, old_new_types, pos)

\* the end of the call without the final retain
KeepAdded(done) == done

\* the final retain
RetainNotAdded(done) ==
    IF done.panic THEN done
    ELSE [done EXCEPT !.vars_in_scope = MapWithout(@, done.added_var_ids)]

\* the loop over the expanded batch
ReconcileExpanded(new_types, old_new_types, rs, pos) ==
    RetainNotAdded(ReconcileKeys(rs, SortedKeys(DOMAIN new_types), new_types,
                                 old_new_types, pos))

\* rs on entry has no added_var_ids and an empty log
reconcile_keyed_types(old_new_types, rs, pos) ==
    IF DOMAIN old_new_types = {} THEN rs
    ELSE ReconcileExpanded(add_nested_assertions(old_new_types, rs.vars_in_scope),
                           old_new_types, rs, pos)

(***************************************************************************)
(* Function calls: add_dataflow and the tables it consults.                *)
(***************************************************************************)
Htmlspecialchars == <<"h", "t", "m", "l", "s", "p", "e", "c", "i", "a", "l", "c", "h", "a", "r", "s">>
Substr == <<"s", "u", "b", "s", "t", "r">>
Strpos == <<"s", "t", "r", "p", "o", "s">>
Pathinfo == <<"p", "a", "t", "h", "i", "n", "f", "o">>
UserFunction == <<"f">>
Htmlentities == <<"h", "t", "m", "l", "e", "n", "t", "i", "t", "i", "e", "s">>
StripTags == <<"s", "t", "r", "i", "p", "_", "t", "a", "g", "s">>
Urlencode == <<"u", "r", "l", "e", "n", "c", "o", "d", "e">>
HtmlEntityDecode ==
    <<"h", "t", "m", "l", "_", "e", "n", "t", "i", "t", "y", "_", "d", "e", "c", "o", "d", "e">>
HtmlspecialcharsDecode == Htmlspecialchars \o <<"_", "d", "e", "c", "o", "d", "e">>

\* PathKind::ArrayAssignment(kind, key)
PKArrayAssignment(kind, key) == [name |-> "ArrayAssignment", key |-> key, kind |-> kind]

Dirname == <<"d", "i", "r", "n", "a", "m", "e">>
Basename == <<"b", "a", "s", "e", "n", "a", "m", "e">>
Extension == <<"e", "x", "t", "e", "n", "s", "i", "o", "n">>
Filename == <<"f", "i", "l", "e", "n", "a", "m", "e">>

\* get_special_argument_nodes: (param_offsets, variadic_path)
get_special_argument_nodes(function_name) ==
    IF function_name \in {Htmlspecialchars, Htmlentities, StripTags, Urlencode,
                          HtmlEntityDecode, HtmlspecialcharsDecode}
    THEN [param_offsets |-> <<<<0, PKDefault>>>>, variadic_path |-> {}]
    ELSE IF function_name = Substr
    THEN [param_offsets |-> <<<<0, PKDefault>>>>, variadic_path |-> {PKAggregate}]
    ELSE IF function_name = Strpos
    THEN [param_offsets |-> <<>>, variadic_path |-> {PKAggregate}]
    ELSE IF function_name = Pathinfo
    THEN [param_offsets |-> <<<<0, PKArrayAssignment("ArrayValue", Dirname)>>,
                              <<0, PKArrayAssignment("ArrayValue", Basename)>>,
                              <<0, PKArrayAssignment("ArrayValue", Extension)>>,
                              <<0, PKArrayAssignment("ArrayValue", Filename)>>>>,
          variadic_path |-> {}]
    ELSE [param_offsets |-> <<>>, variadic_path |-> {}]

\* get_special_added_removed_taints: offset -> (added, removed)
\* no taints are added or removed
NoSpecialTaints(function_name) == EmptyMap

get_special_added_removed_taints(function_name) ==
    IF function_name \in {HtmlEntityDecode, HtmlspecialcharsDecode}
    THEN MapPut(EmptyMap, 0, <<{"HtmlTag"}, {}>>)
    ELSE IF function_name \in {Htmlentities, Htmlspecialchars, StripTags, Urlencode}
    THEN MapPut(EmptyMap, 0, <<{}, {"HtmlTag", "HtmlAttributeUri"}>>)
    ELSE EmptyMap

add_special_param_dataflow(g, f, param_offset, arg_pos, pos, added_removed_taints, function_call_node, path_kind) ==
    LET argument_node == get_for_method_argument(f, param_offset, {arg_pos}, {pos})
        taints == IF param_offset \in DOMAIN added_removed_taints
                  THEN added_removed_taints[param_offset] ELSE <<{}, {}>>
    IN add_node(add_path(g, argument_node, function_call_node, path_kind,
                         taints[1], taints[2]),
                argument_node)

\* the loop over param_offsets; r is [graph, last_arg], last_arg an Option
RECURSIVE ParamOffsets(_, _, _, _, _, _, _)
ParamOffsets(r, param_offsets, f, args, pos, taints, function_call_node) ==
    IF param_offsets = <<>> THEN r
    ELSE LET param_offset == Head(param_offsets)[1]
             path_kind == Head(param_offsets)[2]
         IN ParamOffsets(
                [graph |-> IF param_offset < Len(args)
                           THEN add_special_param_dataflow(r.graph, f, param_offset,
                                    args[param_offset + 1], pos, taints,
                                    function_call_node, path_kind)
                           ELSE r.graph,
                 last_arg |-> {param_offset}],
                Tail(param_offsets), f, args, pos, taints, function_call_node)

\* the arguments beyond the listed ones get no edge
VariadicNone(g, param_offset, last_arg, f, args, pos, taints, function_call_node, path_kind) == g

\* the loop over the arguments for a variadic path
RECURSIVE VariadicArgs(_, _, _, _, _, _, _, _, _)
VariadicArgs(g, param_offset, last_arg, f, args, pos, taints, function_call_node, path_kind) ==
    IF param_offset >= Len(args) THEN g
    ELSE VariadicArgs(
             IF last_arg = {} \/ \A l \in last_arg : param_offset > l
             THEN add_special_param_dataflow(g, f, param_offset, args[param_offset + 1],
                                             pos, taints, function_call_node, path_kind)
             ELSE g,
             param_offset + 1, last_arg, f, args, pos, taints, function_call_node, path_kind)

\* storage is the FunctionLikeInfo: name, return_type_location, name_location,
\* specialize_call, taint_source_types; args are the positions of the
\* arguments, expanded_arg the position of the unpacked argument, if any
add_dataflow(g, allow_taints, storage, args, expanded_arg, pos, stmt_type) ==
    IF IsWholeProgram(g.kind) /\ ~allow_taints
    THEN [graph |-> g, stmt_type |-> stmt_type]
    ELSE
    LET f == storage.name
        function_call_node ==
            IF IsWholeProgram(g.kind)
            THEN get_for_method_return(f,
                     IF storage.return_type_location # {}
                     THEN storage.return_type_location ELSE storage.name_location,
                     IF storage.specialize_call THEN {pos} ELSE {})
            ELSE get_for_method_return(f, {pos}, {pos})
        special == get_special_argument_nodes(f)
        taints == IF IsWholeProgram(g.kind)
                  THEN get_special_added_removed_taints(f) ELSE EmptyMap
        fixed == ParamOffsets([graph |-> add_node(g, function_call_node), last_arg |-> {}],
                              special.param_offsets, f, args, pos, taints,
                              function_call_node)
        variadic ==
            IF special.variadic_path = {} THEN fixed.graph
            ELSE LET path_kind == CHOOSE k \in special.variadic_path : TRUE
                     g1 == VariadicArgs(fixed.graph, 0, fixed.last_arg, f, args, pos,
                                        taints, function_call_node, path_kind)
                 IN IF expanded_arg = {} THEN g1
                    ELSE add_special_param_dataflow(g1, f, Len(args),
                             CHOOSE a \in expanded_arg : TRUE, pos, taints,
                             function_call_node, path_kind)
        sourced ==
            IF IsWholeProgram(g.kind) /\ storage.taint_source_types # {}
            THEN add_node(variadic,
                          Node(function_call_node.id, "TaintSource",
                               function_call_node.pos, {}))
            ELSE variadic
    IN [graph |-> sourced,
        stmt_type |-> [stmt_type EXCEPT !.parent_nodes =
                          MapPut(@, function_call_node.id, function_call_node)]]

(***************************************************************************)
(* HH\Shapes::removeKey($s, 'k') on a variable in scope                    *)
(***************************************************************************)
\* the atomic with its known items as they are
KeepKnownItems(atomic, dictkey) == atomic

RemoveKnownItem(atomic, dictkey) ==
    IF atomic.tag = "TDict" /\ atomic.known_items # {}
    THEN [atomic EXCEPT !.known_items =
             {MapWithout(CHOOSE m \in @ : TRUE, {dictkey})}]
    ELSE atomic

\* returns the new vars_in_scope and graph
shapes_remove_key(vars_in_scope, g, expr_var_id, dim_var_id, arg_pos) ==
    IF expr_var_id \notin DOMAIN vars_in_scope
    THEN [vars_in_scope |-> vars_in_scope, graph |-> g]
    ELSE LET expr_type == vars_in_scope[expr_var_id]
             key == SubSeq(dim_var_id, 2, Len(dim_var_id) - 1)
             assignment_node == get_for_assignment(expr_var_id, arg_pos)
             new_type ==
                 [types |-> [i \in 1..Len(expr_type.types) |->
                                RemoveKnownItem(expr_type.types[i], DictKeyString(key))],
                  parent_nodes |-> MapPut(EmptyMap, assignment_node.id, assignment_node)]
         IN [vars_in_scope |-> MapPut(vars_in_scope, expr_var_id, new_type),
             graph |-> add_node(add_paths_to(g, MapRange(expr_type.parent_nodes),
                                             assignment_node, PKRemoveDictKey(key), {}, {}),
                                assignment_node)]

(***************************************************************************)
(* The analysis of a function body: an environment, and the operations     *)
(* that refine it.                                                         *)
(***************************************************************************)
MaxSteps == 2

Pos3 == HPos("a.hack", 11, 13)

VarA == <<"$", "a">>
VarB == <<"$", "b">>
KeyK == <<"'", "k", "'">>
PathAK == <<"$", "a", "[", "'", "k", "'", "]">>
PathAJ == <<"$", "a", "[", "'", "j", "'", "]">>
PathAb == <<"$", "a", "-", ">", "b">>
PathThisb == <<"$", "t", "h", "i", "s", "-", ">", "b">>

\* the nodes the variables of the environment were assigned at
AssignedA == get_for_assignment(VarA, Pos1)
AssignedB == get_for_assignment(VarB, Pos1)
AssignedThis == get_for_assignment(ThisKey, Pos1)

Parents(nodes) == [id \in {n.id : n \in nodes} |-> CHOOSE n \in nodes : n.id = id]

Item(type) == [pu |-> FALSE, type |-> type]

ShapeKJ ==
    TDict({MapPut(MapPut(EmptyMap, DictKeyString(<<"k">>),
                         Item(TUnion(<<TInt, TNull>>, EmptyMap))),
                  DictKeyString(<<"j">>), Item(get_string))}, {})

\* the types $a may have on entry
TypesOfA ==
    {<<ShapeKJ, TNull>>,
     <<TDict({}, {get_string})>>,
     <<TNamedObject(ClassC), TNull>>,
     <<TInt, TString>>}

\* paths below $a already in scope
SubPaths(types) ==
    IF types[1].tag = "TDict" /\ types[1].known_items # {}
    THEN MapPut(EmptyMap, PathAJ, get_string)
    ELSE IF types[1].tag = "TNamedObject"
    THEN MapPut(EmptyMap, PathAb, TUnion(<<TString, TNull>>, EmptyMap))
    ELSE EmptyMap

Environment(types, parents, with_sub_paths) ==
    MapExtend(
        MapPut(MapPut(MapPut(MapPut(EmptyMap,
            VarA, TUnion(types, Parents(parents))),
            VarB, TUnion(<<TInt, TNull>>, Parents({AssignedB}))),
            ThisKey, TUnion(<<TNamedObject(ClassC), TNull>>, Parents({AssignedThis}))),
            PathThisb, TUnion(<<TString, TNull>>, EmptyMap)),
        IF with_sub_paths THEN SubPaths(types) ELSE EmptyMap)

RECURSIVE add_nodes(_, _)
add_nodes(g, nodes) ==
    IF nodes = {} THEN g
    ELSE LET n == CHOOSE x \in nodes : TRUE IN add_nodes(add_node(g, n), nodes \ {n})

Batch1(key, assertion) == MapPut(EmptyMap, key, <<<<assertion>>>>)

\* the assertion batches (new_types) handed to the reconciler
Batches ==
    {Batch1(VarA, IsType(TInt)),
     Batch1(VarA, IsType(TDict({}, {}))),
     Batch1(VarA, Truthy),
     MapPut(EmptyMap, VarA, <<<<IsType(TInt), IsType(TString)>>, <<IsNotType(TString)>>>>),
     Batch1(PathAK, IsIsset),
     Batch1(PathAK, IsType(TInt)),
     MapPut(Batch1(VarA, IsType(TDict({}, {}))), PathAK, <<<<IsIsset>>>>),
     Batch1(PathAK \o <<"[", "'", "j", "'", "]">>, IsIsset),
     Batch1(PathAK, IsEqual(TInt)),
     Batch1(PathAb, IsIsset),
     Batch1(PathAb, IsType(TInt)),
     Batch1(VarB, IsType(TString)),
     Batch1(ThisKey, Truthy),
     Batch1(TaintsKey, RemoveTaints(VarA, {"HtmlTag"})),
     Batch1(TaintsKey, IgnoreTaints),
     Batch1(TaintsKey, DontIgnoreTaints),
     MapPut(EmptyMap, TaintsKey, <<<<IgnoreTaints>>, <<DontIgnoreTaints>>>>),
     MapPut(EmptyMap, TaintsKey, <<<<DontIgnoreTaints, IgnoreTaints>>>>)}

\* whether reconciling the batch reads the position (for a guard node or a
\* taint-removal node)
ReadsPosition(new_types) ==
    \E key \in DOMAIN new_types :
        IF key = TaintsKey
        THEN \E i \in 1..Len(Flatten(new_types[key])) :
                 Flatten(new_types[key])[i].kind = "RemoveTaints"
        ELSE has_scalar_restriction(new_types[key])

\* the reconciliations analysed: every batch at Pos2, and at Pos3 too the
\* batches that read the position
Reconciliations ==
    {<<new_types, Pos2>> : new_types \in Batches}
    \cup {<<new_types, Pos3>> : new_types \in {b \in Batches : ReadsPosition(b)}}

FunctionStorage(name, specialize_call, taint_source_types) ==
    [name |-> name, return_type_location |-> {Pos1}, name_location |-> {Pos1},
     specialize_call |-> specialize_call, taint_source_types |-> taint_source_types]

\* the calls analysed: the callee, the positions of the arguments, and the
\* position of the unpacked argument, if any
Call(storage, args, expanded_arg) ==
    [storage |-> storage, args |-> args, expanded_arg |-> expanded_arg]

Calls ==
    {Call(FunctionStorage(Htmlspecialchars, TRUE, {}), <<Pos2>>, {}),
     Call(FunctionStorage(Substr, FALSE, {}), <<Pos2, Pos3>>, {}),
     Call(FunctionStorage(Strpos, TRUE, {}), <<Pos2>>, {Pos3}),
     Call(FunctionStorage(Pathinfo, TRUE, {}), <<Pos3>>, {}),
     Call(FunctionStorage(UserFunction, FALSE, {"UserControlledInput"}), <<>>, {})}

\* the environments on entry: the type of $a, its parent nodes, and whether
\* the paths below it are in scope
Environments ==
    {<<types, {AssignedA}, with_sub_paths>> :
        types \in TypesOfA, with_sub_paths \in BOOLEAN}
    \cup {<<types, {AssignedA, get_for_assignment(VarA, Pos2)}, FALSE>> :
            types \in {<<TInt, TString>>, <<ShapeKJ, TNull>>}}

AnalysisInit ==
    /\ \E env \in Environments, kind \in {FunctionBody, WholeProgram("Taint")} :
          /\ context = [vars_in_scope |-> Environment(env[1], env[2], env[3]),
                        allow_taints |-> TRUE]
          /\ graph = add_nodes(new(kind), env[2] \cup {AssignedB, AssignedThis})
    /\ call_type = {}
    /\ panicked = FALSE
    /\ ops = 0
    /\ last = [op |-> "new", pre |-> {}, arg |-> {}]

CanAnalyse == ~panicked /\ ops < MaxSteps

\* the state after reconcile_keyed_types returned r
Reconciled(r, new_types, pos) ==
    /\ context' = [vars_in_scope |-> r.vars_in_scope, allow_taints |-> r.allow_taints]
    /\ graph' = r.graph
    /\ panicked' = r.panic
    /\ last' = [op |-> "reconcile", pre |-> {},
                arg |-> [new_types |-> new_types, pos |-> pos], log |-> r.log,
                added |-> r.added_var_ids]

ReconcileKeyedTypes ==
    /\ CanAnalyse
    /\ \E reconciliation \in Reconciliations :
          Reconciled(reconcile_keyed_types(reconciliation[1],
                         [vars_in_scope |-> context.vars_in_scope,
                          allow_taints |-> context.allow_taints,
                          graph |-> graph,
                          changed_var_ids |-> {},
                          added_var_ids |-> {},
                          panic |-> FALSE,
                          log |-> <<>>],
                         reconciliation[2]),
                     reconciliation[1], reconciliation[2])
    /\ ops' = ops + 1
    /\ UNCHANGED call_type

ShapesRemoveKey ==
    /\ CanAnalyse
    /\ \E arg_pos \in {Pos3} :
          LET r == shapes_remove_key(context.vars_in_scope, graph, VarA, KeyK, arg_pos)
          IN /\ context' = [context EXCEPT !.vars_in_scope = r.vars_in_scope]
             /\ graph' = r.graph
    /\ last' = [op |-> "remove_key", pre |-> {}, arg |-> {}]
    /\ ops' = ops + 1
    /\ UNCHANGED <<panicked, call_type>>

FunctionCall ==
    /\ CanAnalyse
    /\ \E call \in Calls :
          LET r == add_dataflow(graph, context.allow_taints, call.storage, call.args,
                                call.expanded_arg, Pos2, get_string)
          IN /\ graph' = r.graph
             /\ call_type' = {r.stmt_type}
             /\ last' = [op |-> "add_dataflow", pre |-> {}, arg |-> {call}]
    /\ ops' = ops + 1
    /\ UNCHANGED <<panicked, context>>

AnalysisNext == ReconcileKeyedTypes \/ ShapesRemoveKey \/ FunctionCall

SpecReconcile == AnalysisInit /\ [][AnalysisNext]_vars

(***************************************************************************)
(* Properties of the analysis.                                             *)
(***************************************************************************)
Registered(type) ==
    DOMAIN type.parent_nodes \subseteq (DOMAIN graph.vertices) \cup (DOMAIN graph.sources)

\* C3: the parent nodes of the type of every path in vars_in_scope, and of
\* the type add_dataflow returned, are vertices or sources of the data-flow
\* graph, before and after every operation that rewrites provenance.
C3_ParentNodesRegistered ==
    /\ \A path \in DOMAIN context.vars_in_scope : Registered(context.vars_in_scope[path])
    /\ \A type \in call_type : Registered(type)

\* a reconciliation that replaced the parent nodes of a path by a guard node
C3_Witness ==
    /\ last.op = "reconcile"
    /\ \E i \in 1..Len(last.log) :
          /\ last.log[i].guard_edges # {}
          /\ last.log[i].key \in DOMAIN context.vars_in_scope
          /\ DOMAIN context.vars_in_scope[last.log[i].key].parent_nodes
                 = last.log[i].post_parents
          /\ last.log[i].post_parents \subseteq DOMAIN graph.vertices

\* C4: when reconcile_keyed_types adds a ScalarTypeGuard edge for a path, no
\* node is both a parent of the path's type before the call and after it.
C4_GuardParentsDisjoint ==
    last.op = "reconcile" =>
        \A i \in 1..Len(last.log) :
            last.log[i].guard_edges # {} =>
                last.log[i].pre_parents \cap last.log[i].post_parents = {}

\* C5: every type in vars_in_scope has at least one atomic; an emptied
\* candidate is stored as the single atomic nothing.
C5_NoEmptyType ==
    \A path \in DOMAIN context.vars_in_scope :
        Len(context.vars_in_scope[path].types) >= 1

\* a reconciliation that emptied a candidate and stored nothing for the path
C5_Witness ==
    /\ last.op = "reconcile"
    /\ \E i \in 1..Len(last.log) :
          /\ last.log[i].emptied
          /\ last.log[i].key \in DOMAIN context.vars_in_scope
          /\ is_nothing(context.vars_in_scope[last.log[i].key])

\* C6: applying the same batch (at the same position) twice in succession
\* leaves vars_in_scope as the first application left it.
C6_Idempotent ==
    [][(/\ last.op = "reconcile"
        /\ last'.op = "reconcile"
        /\ last'.arg = last.arg) => context'.vars_in_scope = context.vars_in_scope]_vars

IsPlainVariable(key) == Len(break_up_path_into_parts(key)) = 1 /\ starts_with(key, <<"$">>)

\* C7: a path narrowed through an assertion of the caller's batch, when it is
\* a plain variable other than $this, loses every other path rooted at it
\* that the batch does not mention; only rooted paths are removed; and none
\* is removed for $this or for a path the caller's batch had no assertion on.
C7_RelatedPathsInvalidated ==
    last.op = "reconcile" =>
        \A i \in 1..Len(last.log) :
            LET e == last.log[i]
            IN /\ (e.narrowed /\ IsPlainVariable(e.key) /\ e.key # ThisKey /\ e.in_batch) =>
                      {p \in e.scope : p # e.key /\ var_has_root(p, e.key)
                                          /\ p \notin e.mentioned} \subseteq e.removed
               /\ \A p \in e.removed : var_has_root(p, e.key)
               /\ (e.key = ThisKey \/ ~e.in_batch) => e.removed = {}

\* the IgnoreTaints and DontIgnoreTaints assertions of a batch, in order
TaintFlags(new_types) ==
    IF TaintsKey \notin DOMAIN new_types THEN <<>>
    ELSE SelectSeq(Flatten(new_types[TaintsKey]),
                   LAMBDA a : a.kind \in {"IgnoreTaints", "DontIgnoreTaints"})

\* C23: reconciling IgnoreTaints or DontIgnoreTaints on the path
\* "hakana taints" sets allow_taints to false or true, the last assertion of
\* the batch deciding, and leaves every variable in scope with the type it
\* had; a function call analysed against a whole-program graph while
\* allow_taints is false leaves the graph as it is and returns the call type
\* with the parent nodes it came with, and a call analysed while allow_taints
\* is true registers its return node as a parent node of the call type.
C23_TaintsSwitch ==
    [][/\ (last'.op = "reconcile" /\ DOMAIN last'.arg.new_types = {TaintsKey}
           /\ TaintFlags(last'.arg.new_types) # <<>>) =>
              LET flags == TaintFlags(last'.arg.new_types)
              IN /\ context'.allow_taints = (flags[Len(flags)].kind = "DontIgnoreTaints")
                 /\ \A path \in DOMAIN context.vars_in_scope :
                       /\ path \in DOMAIN context'.vars_in_scope
                       /\ context'.vars_in_scope[path] = context.vars_in_scope[path]
                 /\ graph' = graph
       /\ (last'.op = "add_dataflow" /\ IsWholeProgram(graph.kind)) =>
              IF context.allow_taints
              THEN \E type \in call_type' :
                      /\ DOMAIN type.parent_nodes # {}
                      /\ DOMAIN type.parent_nodes \subseteq DOMAIN graph'.vertices
              ELSE /\ graph' = graph
                   /\ call_type' = {get_string}]_vars

\* a call analysed against a whole-program graph after IgnoreTaints
C23_Witness ==
    /\ last.op = "add_dataflow"
    /\ IsWholeProgram(graph.kind)
    /\ ~context.allow_taints
    /\ TaintsKey \in DOMAIN context.vars_in_scope
    /\ call_type = {get_string}

\* C12: after add_dataflow for a call to pathinfo the graph has four edges
\* from the node of argument 0 to the node of the call's return, one of kind
\* ArrayAssignment(ArrayValue, field) for each of dirname, basename,
\* extension and filename.
C12_PathinfoFourEdges ==
    last.op = "add_dataflow" =>
        \A call \in {c \in last.arg : c.storage.name = Pathinfo}, type \in call_type :
            \A return_id \in DOMAIN type.parent_nodes :
                LET argument_id ==
                        get_for_method_argument(Pathinfo, 0, {call.args[1]}, {Pos2}).id
                IN \A field \in {Dirname, Basename, Extension, Filename} :
                       /\ argument_id \in DOMAIN graph.forward_edges
                       /\ return_id \in DOMAIN graph.forward_edges[argument_id]
                       /\ graph.forward_edges[argument_id][return_id].kind
                              = PKArrayAssignment("ArrayValue", field)

(***************************************************************************)
(* The functions of the reconciler on their own: each is applied once to   *)
(* inputs drawn from the sets below, and its result is kept in last.       *)
(***************************************************************************)
MaxSuffixes == 2

\* the tokens of well-formed paths: a root, then suffixes
PathRoots == {<<VarA>>, <<ClassC, <<":", ":", "$">>, <<"b">>>>}

Index(key) == <<<<"[">>, key, <<"]">>>>

QuotedKeys ==
    {KeyK,
     <<"\"", "k", "\"">>,
     <<"'", "a", "]", "b", "'">>,
     <<"'", "a", "-", ">", "b", "'">>,
     <<"'", "a", ":", ":", "$", "b", "'">>,
     <<"'", "a", "\\", "'", "b", "'">>}

PathSuffixes ==
    {Index(key) : key \in QuotedKeys \cup {<<"0">>, VarB}}
    \cup {<<<<"-", ">">>, <<"b">>>>, <<<<":", ":", "$">>, <<"c">>>>}

RECURSIVE TokenPaths(_)
TokenPaths(n) ==
    IF n = 0 THEN PathRoots
    ELSE LET shorter == TokenPaths(n - 1)
         IN shorter \cup {p \o suffix : p \in shorter, suffix \in PathSuffixes}

(***************************************************************************)
(* trigger_issue_for_impossible: returns the issues handed to              *)
(* maybe_add_issue, in order                                               *)
(***************************************************************************)
FalsyString == <<"f", "a", "l", "s", "y">>
TruthyString == <<"t", "r", "u", "t", "h", "y">>

ImpossibleTypeComparison(old_var_type_string, assertion_string) ==
    [kind |-> "ImpossibleTypeComparison",
     message |-> <<"Type ">> \o old_var_type_string \o <<" is never ">> \o assertion_string]

RedundantTypeComparison(old_var_type_string, assertion_string) ==
    [kind |-> "RedundantTypeComparison",
     message |-> <<"Type ">> \o old_var_type_string \o <<" is always ">> \o assertion_string]

\* the polarity and the redundancy left as they came in
KeepFlag(flag, negated) == flag

NotOperator(not_operator, negated) == IF negated THEN ~not_operator ELSE not_operator

Redundant(redundant, negated) == IF negated THEN ~redundant ELSE redundant

trigger_issue_for_impossible(old_var_type_string, assertion, redundant_in, negated) ==
    LET negative == starts_with(assertion, <<"!">>)
        stripped == IF negative THEN Tail(assertion) ELSE assertion
        flipped == NotOperator(negative, negated)
        redundant == Redundant(redundant_in, negated)
        rephrased == IF redundant THEN flipped /\ stripped = FalsyString
                     ELSE ~flipped /\ stripped = FalsyString
        not_operator == IF ~rephrased THEN flipped ELSE IF redundant THEN FALSE ELSE TRUE
        assertion_string == IF rephrased THEN TruthyString ELSE stripped
    IN IF redundant
       THEN <<IF not_operator
              THEN ImpossibleTypeComparison(old_var_type_string, assertion_string)
              ELSE RedundantTypeComparison(old_var_type_string, assertion_string)>>
       ELSE <<IF not_operator
              THEN RedundantTypeComparison(old_var_type_string, assertion_string)
              ELSE ImpossibleTypeComparison(old_var_type_string, assertion_string)>>

(***************************************************************************)
(* do_analyzer::analyze: the post-loop variables merged into the caller's  *)
(* context                                                                 *)
(***************************************************************************)
combine_union_types(type_1, type_2) == add_union_type(type_1, type_2)

\* the post-loop type committed whether or not the loop breaks
CommitVar(vars_in_scope, var_id, var_type, final_actions, possibly_defined) ==
    MapPut(vars_in_scope, var_id, var_type)

\* the body of the loop over the post-loop variables
MergeVar(vars_in_scope, var_id, var_type, final_actions, possibly_defined) ==
    IF "Break" \in final_actions
    THEN IF var_id \in DOMAIN possibly_defined
         THEN MapPut(vars_in_scope, var_id,
                     combine_union_types(var_type, possibly_defined[var_id]))
         ELSE vars_in_scope
    ELSE MapPut(vars_in_scope, var_id, var_type)

RECURSIVE MergeLoopVars(_, _, _, _, _)
MergeLoopVars(vars_in_scope, inner, var_ids, final_actions, possibly_defined) ==
    IF var_ids = {} THEN vars_in_scope
    ELSE LET var_id == CHOOSE v \in var_ids : TRUE
         IN MergeLoopVars(MergeVar(vars_in_scope, var_id, inner[var_id], final_actions,
                                   possibly_defined),
                          inner, var_ids \ {var_id}, final_actions, possibly_defined)

\* the paths the functions are applied to
PathA(index) == VarA \o <<"[">> \o index \o <<"]">>
PathA0 == PathA(<<"0">>)
PathAMinus1 == PathA(<<"-", "1">>)
PathAQuoted == PathA(<<"\"", "k", "\"">>)
PathAVarB == PathA(VarB)
PathAKJ == PathAK \o <<"[", "'", "j", "'", "]">>
PathAK0 == PathAK \o <<"[", "0", "]">>
PathCK == <<"$", "c", "[", "'", "k", "'", "]">>

Items1(dictkey, type) == {MapPut(EmptyMap, dictkey, Item(type))}

MixedDict == TDict({}, {wrap_atomic(TMixed)})
StringDict == TDict({}, {get_string})
StringVec == TVec({}, get_string)

\* the environments on entry: the type of $a and the paths below it in scope
FunctionEnvironments ==
    {<<<<MixedDict>>, EmptyMap>>,
     <<<<ShapeKJ, TNull>>, MapPut(EmptyMap, PathAJ, get_string)>>,
     <<<<TVec(Items1(DictKeyInt(0), wrap_atomic(TInt)), get_string)>>, EmptyMap>>,
     <<<<TDict(Items1(DictKeyString(<<"k">>), wrap_atomic(StringVec)), {})>>,
       MapPut(EmptyMap, PathAK, wrap_atomic(StringVec))>>,
     <<<<TDict(Items1(DictKeyString(<<"k">>), TUnion(<<StringDict, TNull>>, EmptyMap)), {})>>,
       MapPut(EmptyMap, PathAK, TUnion(<<StringDict, TNull>>, EmptyMap))>>,
     <<<<StringDict, StringVec>>, EmptyMap>>,
     <<<<TNamedObject(ClassC), TNull>>, EmptyMap>>,
     <<<<TInt, TString>>, EmptyMap>>}

FunctionInit ==
    /\ \E env \in FunctionEnvironments,
          parents \in {{AssignedA}, {AssignedA, get_for_assignment(VarA, Pos2)}} :
          context = [vars_in_scope |->
                         MapExtend(Environment(env[1], parents, FALSE), env[2]),
                     allow_taints |-> TRUE]
    /\ \E kind \in {FunctionBody, WholeProgram("Taint")} : graph = new(kind)
    /\ call_type = {}
    /\ panicked = FALSE
    /\ ops = 0
    /\ last = [op |-> "new", pre |-> {}, arg |-> {}]

\* path is the string the tokens make; parts is what the lexer gives for it,
\* again what it gives for the parts joined
BreakUpPath ==
    /\ last.op = "new"
    /\ \E tokens \in TokenPaths(MaxSuffixes) :
          last' = [op |-> "break_up_path_into_parts",
                   pre |-> [tokens |-> tokens, path |-> join(tokens)],
                   arg |-> [parts |-> break_up_path_into_parts(join(tokens)),
                            again |-> break_up_path_into_parts(
                                          join(break_up_path_into_parts(join(tokens))))]]
    /\ ops' = ops + 1
    /\ UNCHANGED <<graph, panicked, context, call_type>>

ValueKeys == {VarA, PathAK, PathA0, PathAVarB, PathAKJ, PathAb, PathCK}

\* the batch being reconciled mentions the key, or only $b
GetValueForKey ==
    /\ last.op = "new"
    /\ \E key \in ValueKeys, isset \in BOOLEAN, inverted \in BOOLEAN, mentioned \in BOOLEAN :
          LET new_assertions == IF mentioned
                                THEN Batch1(key, IF inverted THEN IsNotIsset ELSE IsIsset)
                                ELSE Batch1(VarB, Truthy)
              r == get_value_for_key(key,
                       [vars_in_scope |-> context.vars_in_scope, added_var_ids |-> {},
                        possibly_undefined |-> FALSE, panic |-> FALSE],
                       new_assertions, isset, inverted)
          IN /\ context' = [context EXCEPT !.vars_in_scope = r.st.vars_in_scope]
             /\ panicked' = r.st.panic
             /\ last' = [op |-> "get_value_for_key",
                         pre |-> [key |-> key, isset |-> isset, inverted |-> inverted,
                                  new_assertions |-> new_assertions,
                                  vars_in_scope |-> context.vars_in_scope],
                         arg |-> [result |-> r.result,
                                  possibly_undefined |-> r.st.possibly_undefined,
                                  added_var_ids |-> r.st.added_var_ids]]
    /\ ops' = ops + 1
    /\ UNCHANGED <<graph, call_type>>

AdjustKeys ==
    {PathAK, PathAQuoted, PathA0, PathAMinus1, PathAVarB, PathAKJ, PathAK0, PathCK,
     PathA(<<"k">>), PathA(<<"'", "0", "'">>)}

\* the type a reconciled key was refined to is written back into the
\* arrays the key is read from
AdjustArrayType ==
    /\ last.op = "new"
    /\ \E key \in AdjustKeys, result_type \in {get_string, wrap_atomic(TInt)} :
          LET parts == break_up_path_into_parts(key)
              r == adjust_array_type(parts, context.vars_in_scope, {}, result_type)
          IN /\ context' = [context EXCEPT !.vars_in_scope = r.vars_in_scope]
             /\ last' = [op |-> "adjust_array_type",
                         pre |-> [key |-> key, parts |-> parts, result_type |-> result_type,
                                  vars_in_scope |-> context.vars_in_scope],
                         arg |-> [changed_var_ids |-> r.changed_var_ids]]
    /\ ops' = ops + 1
    /\ UNCHANGED <<graph, panicked, call_type>>

Field(name) == <<"-", ">">> \o name

NestedKeys ==
    {PathAK, PathAQuoted, PathA0, PathAVarB, PathAKJ, PathAb, PathCK,
     PathAK \o Field(<<"b">>), PathAb \o Field(<<"c">>), PathThisb \o <<"[", "0", "]">>,
     ClassC \o <<":", ":", "$", "b", "[", "'", "k", "'", "]">>}

\* a batch with assertions on one nested path, with or without assertions
\* of the caller on $a
NestedBatches ==
    {Batch1(key, first) : key \in NestedKeys, first \in {IsIsset, IsEqualIsset, Truthy}}
    \cup {MapPut(Batch1(key, IsIsset), VarA, <<<<Truthy>>, <<IsIsset>>>>) : key \in NestedKeys}

AddNestedAssertions ==
    /\ last.op = "new"
    /\ \E new_types \in NestedBatches :
          last' = [op |-> "add_nested_assertions",
                   pre |-> [new_types |-> new_types, vars_in_scope |-> context.vars_in_scope],
                   arg |-> [new_types |->
                                add_nested_assertions(new_types, context.vars_in_scope)]]
    /\ ops' = ops + 1
    /\ UNCHANGED <<graph, panicked, context, call_type>>

\* Assertion::to_string as the function receives it
AssertionStrings ==
    LET positive == {FalsyString, TruthyString, <<"i", "s", "s", "e", "t">>,
                     <<"i", "n", "t">>, <<"=", "i", "n", "t">>}
    IN positive \cup {<<"!">> \o a : a \in positive}

TypeStrings == {<<"i", "n", "t">>, <<"?", "s", "t", "r", "i", "n", "g">>}

TriggerIssue ==
    /\ last.op = "new"
    /\ \E old_var_type_string \in TypeStrings, assertion \in AssertionStrings,
          redundant \in BOOLEAN, negated \in BOOLEAN :
          last' = [op |-> "trigger_issue_for_impossible",
                   pre |-> [old_var_type_string |-> old_var_type_string,
                            assertion |-> assertion, redundant |-> redundant,
                            negated |-> negated],
                   arg |-> [issues |-> trigger_issue_for_impossible(
                                old_var_type_string, assertion, redundant, negated)]]
    /\ ops' = ops + 1
    /\ UNCHANGED <<graph, panicked, context, call_type>>

VarC == <<"$", "c">>
VarD == <<"$", "d">>

Pos4 == HPos("a.hack", 15, 17)

\* calls of the functions of the argument table with up to three arguments
\* and with or without an unpacked argument
SpecialCalls ==
    {Call(FunctionStorage(f, specialize_call, {}), args, expanded_arg) :
        f \in {Htmlspecialchars, Htmlentities, StripTags, Urlencode, HtmlEntityDecode,
               HtmlspecialcharsDecode, Substr, Strpos, Pathinfo, UserFunction},
        specialize_call \in BOOLEAN,
        args \in {<<>>, <<Pos1>>, <<Pos1, Pos3>>, <<Pos1, Pos3, Pos4>>},
        expanded_arg \in {{}, {HPos("a.hack", 19, 21)}}}

AddDataflow ==
    /\ last.op = "new"
    /\ \E call \in SpecialCalls :
          LET r == add_dataflow(graph, context.allow_taints, call.storage, call.args,
                                call.expanded_arg, Pos2, get_string)
          IN /\ graph' = r.graph
             /\ call_type' = {r.stmt_type}
             /\ last' = [op |-> "add_dataflow", pre |-> {}, arg |-> {call}]
    /\ ops' = ops + 1
    /\ UNCHANGED <<panicked, context>>

\* HH\Shapes::removeKey on $a and on a variable that is not in scope
RemoveKey ==
    /\ last.op = "new"
    /\ \E expr_var_id \in {VarA, VarC}, dim_var_id \in {KeyK, <<"'", "j", "'">>} :
          LET r == shapes_remove_key(context.vars_in_scope, graph, expr_var_id,
                                     dim_var_id, Pos3)
          IN /\ context' = [context EXCEPT !.vars_in_scope = r.vars_in_scope]
             /\ graph' = r.graph
             /\ last' = [op |-> "remove_key",
                         pre |-> [vars_in_scope |-> context.vars_in_scope, graph |-> graph],
                         arg |-> [expr_var_id |-> expr_var_id, dim_var_id |-> dim_var_id,
                                  arg_pos |-> Pos3]]
    /\ ops' = ops + 1
    /\ UNCHANGED <<panicked, call_type>>

\* the variables at the end of the loop: those of the caller with $a as
\* the loop left it, with or without $c defined in the loop
LoopContexts(vars_in_scope) ==
    {MapExtend(MapPut(vars_in_scope, VarA, a), c) :
        a \in {wrap_atomic(TInt), TUnion(<<TString, TNull>>, EmptyMap)},
        c \in {EmptyMap, MapPut(EmptyMap, VarC, get_string)}}

\* LoopScope::possibly_defined_loop_parent_vars
PossiblyDefined ==
    {EmptyMap,
     MapPut(EmptyMap, VarA, get_null),
     MapPut(EmptyMap, VarC, wrap_atomic(TInt)),
     MapPut(MapPut(EmptyMap, VarA, get_string), VarD, get_null)}

\* the end of the analysis of a do-while loop
DoAnalyze ==
    /\ last.op = "new"
    /\ \E inner \in LoopContexts(context.vars_in_scope),
          final_actions \in {{}, {"Break"}, {"Continue"}, {"Break", "Continue"}},
          possibly_defined \in PossiblyDefined :
          /\ context' = [context EXCEPT !.vars_in_scope =
                             MergeLoopVars(@, inner, DOMAIN inner, final_actions,
                                           possibly_defined)]
          /\ last' = [op |-> "do",
                      pre |-> [vars_in_scope |-> context.vars_in_scope],
                      arg |-> [inner |-> inner, final_actions |-> final_actions,
                               possibly_defined |-> possibly_defined]]
    /\ ops' = ops + 1
    /\ UNCHANGED <<graph, panicked, call_type>>

\* the i-th node of a chain of assignments: node i + 1 is the one parent of
\* node i
ChainNode(i) == get_for_lvar("$x", HPos("a.hack", 100 + i, 101 + i))

\* a function-body graph of the registered nodes lo..hi of the chain and the
\* default edges between them, merged from the graphs of its two halves
RECURSIVE Chain(_, _)
Chain(lo, hi) ==
    IF hi = lo
    THEN add_node(new(FunctionBody), ChainNode(lo))
    ELSE IF hi = lo + 1
    THEN add_path(add_node(add_node(new(FunctionBody), ChainNode(lo)), ChainNode(hi)),
                  ChainNode(hi), ChainNode(lo), PKDefault, {}, {})
    ELSE LET mid == (lo + hi) \div 2
         IN merge_graph(Chain(lo, mid), Chain(mid, hi))

\* the lengths around the limit of the search, and a few short ones
ChainHops ==
    {0, 1, 2, MaxRounds - 2, MaxRounds - 1, MaxRounds, MaxRounds + 1, MaxRounds + 2}

\* get_origin_nodes from the end of a chain, no path kind ignored
ChainOrigins ==
    /\ last.op = "new"
    /\ \E hops \in ChainHops :
          LET g == Chain(0, hops)
              ord == [i \in 1..(hops + 1) |-> ChainNode(i - 1).id]
          IN /\ graph' = g
             /\ last' = [op |-> "get_origin_nodes",
                         pre |-> [hops |-> hops],
                         arg |-> [origins |->
                                      get_origin_nodes(g, ChainNode(0), {}, ord)]]
    /\ ops' = ops + 1
    /\ UNCHANGED <<panicked, context, call_type>>

FunctionNext ==
    \/ ChainOrigins
    \/ AddDataflow
    \/ DoAnalyze
    \/ RemoveKey
    \/ BreakUpPath
    \/ GetValueForKey
    \/ AdjustArrayType
    \/ AddNestedAssertions
    \/ TriggerIssue

SpecFunctions == FunctionInit /\ [][FunctionNext]_vars

Lexed == last.op = "break_up_path_into_parts"

\* C16: for every well-formed path p the parts of break_up_path_into_parts,
\* concatenated in order, are p, and lexing the concatenation gives the same
\* parts.
C16_LexerLossless ==
    Lexed =>
        /\ join(last.arg.parts) = last.pre.path
        /\ last.arg.again = last.arg.parts

\* a path with a quoted key and a property after it, in four parts or more
C16_Witness ==
    /\ Lexed
    /\ Len(last.arg.parts) >= 4
    /\ \E i \in 1..Len(last.arg.parts) : last.arg.parts[i] \in QuotedKeys
    /\ \E i \in 1..Len(last.arg.parts) : last.arg.parts[i] = <<"-", ">">>

\* C17: a quoted array key is one token, also when it holds an escaped
\* quote, a bracket, "->" or "::$": the string ends at the first unescaped
\* matching quote, and the closing bracket and the separators after it are
\* tokens of their own.
C17_QuotedKeyOneToken ==
    Lexed => last.arg.parts = last.pre.tokens

\* get_value_for_key on $a['k'] with $a a dict without known items whose
\* value parameter is mixed, under an isset assertion on $a['k']
IssetOnMixedDict ==
    /\ last.op = "get_value_for_key"
    /\ last.pre.key = PathAK
    /\ last.pre.vars_in_scope[VarA].types = <<MixedDict>>
    /\ last.pre.isset
    /\ ~last.pre.inverted
    /\ PathAK \in DOMAIN last.pre.new_assertions

\* C18 as stated: the call yields mixed, not mixed-any, and leaves
\* possibly_undefined false.
C18_MixedAndDefined ==
    IssetOnMixedDict =>
        /\ last.arg.result = {wrap_atomic(TMixed)}
        /\ ~last.arg.possibly_undefined

\* C18: the call yields mixed, not mixed-any, and sets possibly_undefined,
\* because the batch being reconciled has assertions on $a['k'];
\* possibly_undefined stays false when the batch does not mention $a['k'].
C18_MixedAndPossiblyUndefined ==
    /\ IssetOnMixedDict =>
          /\ last.arg.result = {wrap_atomic(TMixed)}
          /\ last.arg.possibly_undefined
    /\ (/\ last.op = "get_value_for_key"
        /\ last.pre.key = PathAK
        /\ last.pre.vars_in_scope[VarA].types = <<MixedDict>>
        /\ last.pre.isset
        /\ PathAK \notin DOMAIN last.pre.new_assertions) =>
          /\ last.arg.result = {wrap_atomic(TMixed)}
          /\ ~last.arg.possibly_undefined

C18_Witness ==
    /\ IssetOnMixedDict
    /\ PathAK \in DOMAIN context.vars_in_scope
    /\ context.vars_in_scope[PathAK] = wrap_atomic(TMixed)
    /\ last.arg.added_var_ids = {PathAK}

Adjusted == last.op = "adjust_array_type"

BaseParts(parts) == SubSeq(parts, 1, Len(parts) - 3)
ArrayKey(parts) == parts[Len(parts) - 1]
IsQuoted(array_key) == array_key[1] \in {"'", "\""}
Unquoted(array_key) ==
    IF IsQuoted(array_key) THEN SubSeq(array_key, 2, Len(array_key) - 1) ELSE array_key

\* the key the claim gives the known item in an atomic, if any: a quoted key
\* is a string key of a dict, an integer an int key of a dict or an index of
\* a vec, and anything else gives no known item
KeyWritten(atomic, array_key) ==
    IF atomic.tag = "TDict" /\ IsQuoted(array_key)
    THEN {DictKeyString(Unquoted(array_key))}
    ELSE IF atomic.tag \in {"TDict", "TVec"} /\ is_integer(Unquoted(array_key))
    THEN {DictKeyInt(parse_int(Unquoted(array_key)))}
    ELSE {}

KnownItems(atomic) ==
    IF atomic.known_items = {} THEN EmptyMap ELSE CHOOSE m \in atomic.known_items : TRUE

\* the atomic with the type added as the known item the key stands for
WithKnownItem(atomic, array_key, type) ==
    IF KeyWritten(atomic, array_key) = {} THEN atomic
    ELSE [atomic EXCEPT !.known_items =
              {[k \in DOMAIN KnownItems(atomic) \cup KeyWritten(atomic, array_key) |->
                   IF k \in KeyWritten(atomic, array_key)
                   THEN [pu |-> FALSE, type |-> type]
                   ELSE KnownItems(atomic)[k]]}]

Applies(parts, scope) ==
    /\ ~starts_with(ArrayKey(parts), <<"$">>)
    /\ join(BaseParts(parts)) \in DOMAIN scope

\* the atomics of the path's base that hold a known item for its key
Refined(parts, scope) ==
    {a \in SeqSet(scope[join(BaseParts(parts))].types) : KeyWritten(a, ArrayKey(parts)) # {}}

\* every dict and vec atomic of the base of the path holds, for the key, a
\* known item that is not possibly undefined and whose type is one of written;
\* and so on for the base, which then holds a refined atomic of the path
RECURSIVE WrittenUpToRoot(_, _, _)
WrittenUpToRoot(parts, written, scope) ==
    Applies(parts, scope) =>
        /\ \A a \in Refined(parts, scope) :
              \A k \in KeyWritten(a, ArrayKey(parts)) :
                  /\ k \in DOMAIN KnownItems(a)
                  /\ ~KnownItems(a)[k].pu
                  /\ KnownItems(a)[k].type \in written
        /\ (Refined(parts, scope) # {} /\ BaseParts(parts)[Len(BaseParts(parts))] = <<"]">>) =>
              WrittenUpToRoot(BaseParts(parts),
                              {wrap_atomic(a) : a \in Refined(parts, scope)}, scope)

Expanded == last.op = "add_nested_assertions"

\* the entries of the batch the expansion is made for
NestedEntries(new_types) ==
    {nk \in DOMAIN new_types :
        /\ contains(nk, <<"[">>) \/ contains(nk, <<"-", ">">>)
        /\ new_types[nk][1][1] \in {IsIsset, IsEqualIsset}}

\* the number of parts of the root of a path: a variable, or a static property
RootLen(parts) ==
    IF ~starts_with(parts[1], <<"$">>) /\ Len(parts) > 3 /\ parts[2] = <<":", ":", "$">>
    THEN 3 ELSE 1

\* the [key] and ->field steps of a path from its i-th part on, each with
\* the path it is taken on
RECURSIVE StepsFrom(_, _, _)
StepsFrom(parts, i, base) ==
    IF i > Len(parts) THEN {}
    ELSE IF parts[i] = <<"[">>
    THEN {[path |-> base, index |-> TRUE, key |-> parts[i + 1]]}
         \cup StepsFrom(parts, i + 3, base \o <<"[">> \o parts[i + 1] \o <<"]">>)
    ELSE IF parts[i] = <<"-", ">">>
    THEN {[path |-> base, index |-> FALSE, key |-> parts[i + 1]]}
         \cup StepsFrom(parts, i + 2, base \o Field(parts[i + 1]))
    ELSE {}

RootOf(nk) ==
    LET parts == break_up_path_into_parts(nk) IN join(SubSeq(parts, 1, RootLen(parts)))

StepsOf(nk) ==
    LET parts == break_up_path_into_parts(nk)
    IN StepsFrom(parts, RootLen(parts) + 1, RootOf(nk))

Holds(new_types, path, assertion) ==
    path \in DOMAIN new_types /\ SeqContains(new_types[path], <<assertion>>)

RootUnset(nk) ==
    \/ RootOf(nk) \notin DOMAIN last.pre.vars_in_scope
    \/ is_nullable(last.pre.vars_in_scope[RootOf(nk)])

RootIssetAdded(nk) == RootUnset(nk) => Holds(last.arg.new_types, RootOf(nk), IsEqualIsset)

Supplied(path) ==
    IF path \in DOMAIN last.pre.new_types THEN last.pre.new_types[path] ELSE <<>>

\* what the caller supplied for a path stays at the front of its entry
SuppliedKept ==
    \A path \in DOMAIN last.pre.new_types :
        /\ path \in DOMAIN last.arg.new_types
        /\ Len(last.arg.new_types[path]) >= Len(last.pre.new_types[path])
        /\ SubSeq(last.arg.new_types[path], 1, Len(last.pre.new_types[path]))
               = last.pre.new_types[path]

\* C20 as stated: the root gets IsEqualIsset when it is not in scope or is
\* nullable, the container path of each [key] step gets HasStringArrayAccess
\* for a quoted key and HasIntOrStringArrayAccess for another key, the object
\* path of each ->field step gets IsIsset, and the assertions the caller
\* supplied are neither removed nor reordered.
C20_EachStepAsserted ==
    Expanded =>
        /\ \A nk \in NestedEntries(last.pre.new_types) :
              /\ RootIssetAdded(nk)
              /\ \A step \in StepsOf(nk) :
                    Holds(last.arg.new_types, step.path,
                          IF ~step.index THEN IsIsset
                          ELSE IF IsQuoted(step.key) THEN HasStringArrayAccess
                          ELSE HasIntOrStringArrayAccess)
        /\ SuppliedKept

\* C20: the root gets IsEqualIsset when it is not in scope or is nullable,
\* the container path of each [key] step gets HasStringArrayAccess for a key
\* in single quotes and HasIntOrStringArrayAccess for another key, the object
\* path of each ->field step gets IsIsset when the batch has no assertions
\* for that path (none supplied, none added for the root) and gets nothing
\* otherwise, and the assertions the caller supplied are neither removed nor
\* reordered.
C20_StepsAssertedWhereUnasserted ==
    Expanded =>
        /\ \A nk \in NestedEntries(last.pre.new_types) :
              /\ RootIssetAdded(nk)
              /\ \A step \in StepsOf(nk) :
                    IF step.index
                    THEN Holds(last.arg.new_types, step.path,
                               IF contains(step.key, <<"'">>) THEN HasStringArrayAccess
                               ELSE HasIntOrStringArrayAccess)
                    ELSE IF step.path = RootOf(nk) /\ RootUnset(nk)
                    THEN last.arg.new_types[step.path]
                             = Supplied(step.path) \o <<<<IsEqualIsset>>>>
                    ELSE IF step.path \in DOMAIN last.pre.new_types
                    THEN last.arg.new_types[step.path] = last.pre.new_types[step.path]
                    ELSE last.arg.new_types[step.path] = <<<<IsIsset>>>>
        /\ SuppliedKept

\* isset($a['k']->b) with assertions of the caller on $a: $a keeps them and
\* gains the array access, $a['k'] gains IsIsset
C20_Witness ==
    /\ Expanded
    /\ VarA \in DOMAIN last.pre.new_types
    /\ PathAK \o Field(<<"b">>) \in NestedEntries(last.pre.new_types)
    /\ Len(last.arg.new_types[VarA]) > Len(last.pre.new_types[VarA])
    /\ Holds(last.arg.new_types, VarA, HasStringArrayAccess)
    /\ Holds(last.arg.new_types, PathAK, IsIsset)

Triggered == last.op = "trigger_issue_for_impossible"

\* the assertion of the call without its leading "!", whether it has one,
\* and the two flags after negated has been applied
Asserted == IF Head(last.pre.assertion) = "!" THEN Tail(last.pre.assertion) ELSE last.pre.assertion
Negative == (Head(last.pre.assertion) = "!") # last.pre.negated
IsRedundant == last.pre.redundant # last.pre.negated

\* C21: one issue per call; for an assertion other than falsy, with
\* redundant and the polarity flipped when negated is set, redundant P and
\* non-redundant !P give RedundantTypeComparison "Type T is always P",
\* redundant !P and non-redundant P give ImpossibleTypeComparison
\* "Type T is never P".
C21_IssuePerPolarity ==
    Triggered =>
        /\ Len(last.arg.issues) = 1
        /\ Asserted # FalsyString =>
              last.arg.issues[1] =
                  IF IsRedundant # Negative
                  THEN [kind |-> "RedundantTypeComparison",
                        message |-> <<"Type ">> \o last.pre.old_var_type_string
                                    \o <<" is always ">> \o Asserted]
                  ELSE [kind |-> "ImpossibleTypeComparison",
                        message |-> <<"Type ">> \o last.pre.old_var_type_string
                                    \o <<" is never ">> \o Asserted]

\* a negative assertion other than falsy that is not redundant, negated by
\* the caller
C21_Witness ==
    /\ Triggered
    /\ last.pre.assertion = <<"!", "i", "n", "t">>
    /\ last.pre.negated
    /\ ~last.pre.redundant
    /\ last.arg.issues[1].kind = "RedundantTypeComparison"

\* C22: for falsy and !falsy the issue is of the kind the same redundancy
\* and polarity give for any other assertion.
C22_FalsySameKind ==
    (Triggered /\ Asserted = FalsyString) =>
        last.arg.issues[1].kind =
            IF IsRedundant # Negative THEN "RedundantTypeComparison"
            ELSE "ImpossibleTypeComparison"

\* C29: the issue is the one the call gives with the opposite value of
\* negated.
C29_NegatedUnobservable ==
    Triggered =>
        last.arg.issues = trigger_issue_for_impossible(
                              last.pre.old_var_type_string, last.pre.assertion,
                              last.pre.redundant, ~last.pre.negated)

C29_Witness ==
    /\ Triggered
    /\ last.pre.negated
    /\ last.pre.redundant
    /\ last.pre.assertion = <<"!">> \o FalsyString
    /\ last.arg.issues[1].message =
           <<"Type ">> \o last.pre.old_var_type_string \o <<" is always ">> \o TruthyString

CalledOne == last.op = "add_dataflow" /\ \E call \in last.arg : TRUE

TheCall == CHOOSE call \in last.arg : TRUE

\* the node of the argument at an offset of the call, and the return node
ArgumentNode(call, offset, arg_pos) ==
    get_for_method_argument(call.storage.name, offset, {arg_pos}, {Pos2})

ReturnNode == CHOOSE id \in UNION {DOMAIN type.parent_nodes : type \in call_type} : TRUE

HasEdge(from) ==
    from.id \in DOMAIN graph.forward_edges /\ ReturnNode \in DOMAIN graph.forward_edges[from.id]

EdgeFrom(from) == graph.forward_edges[from.id][ReturnNode]

\* the arguments of the call as pairs of offset and position, the unpacked
\* argument last
Arguments(call) ==
    {<<i - 1, call.args[i]>> : i \in 1..Len(call.args)}
    \cup {<<Len(call.args), e>> : e \in call.expanded_arg}

\* C24: against a whole-program graph the edge from the node of argument 0
\* to the return node removes HtmlTag and HtmlAttributeUri and adds nothing
\* for htmlentities, htmlspecialchars, strip_tags and urlencode, adds HtmlTag
\* and removes nothing for html_entity_decode and htmlspecialchars_decode;
\* the edges of every other argument and of every other function add and
\* remove nothing.
C24_SpecialTaints ==
    (CalledOne /\ IsWholeProgram(graph.kind)) =>
        LET f == TheCall.storage.name
        IN /\ (f \in {Htmlentities, Htmlspecialchars, StripTags, Urlencode,
                      HtmlEntityDecode, HtmlspecialcharsDecode}
               /\ Len(TheCall.args) > 0) =>
                  HasEdge(ArgumentNode(TheCall, 0, TheCall.args[1]))
           /\ \A a \in Arguments(TheCall) :
                 HasEdge(ArgumentNode(TheCall, a[1], a[2])) =>
                     LET path == EdgeFrom(ArgumentNode(TheCall, a[1], a[2]))
                     IN IF a[1] = 0 /\ f \in {Htmlentities, Htmlspecialchars, StripTags, Urlencode}
                        THEN /\ path.added_taints = {}
                             /\ path.removed_taints = {"HtmlTag", "HtmlAttributeUri"}
                        ELSE IF a[1] = 0 /\ f \in {HtmlEntityDecode, HtmlspecialcharsDecode}
                        THEN /\ path.added_taints = {"HtmlTag"}
                             /\ path.removed_taints = {}
                        ELSE /\ path.added_taints = {}
                             /\ path.removed_taints = {}

\* html_entity_decode called with two arguments against a whole-program graph
C24_Witness ==
    /\ CalledOne
    /\ IsWholeProgram(graph.kind)
    /\ TheCall.storage.name = HtmlEntityDecode
    /\ Len(TheCall.args) = 2
    /\ EdgeFrom(ArgumentNode(TheCall, 0, Pos1)).added_taints = {"HtmlTag"}

\* the entry of the called function in the argument table
Entry == get_special_argument_nodes(TheCall.storage.name)

Listed == {Entry.param_offsets[i] : i \in 1..Len(Entry.param_offsets)}

Beyond(offset) ==
    Entry.param_offsets = <<>> \/ offset > Entry.param_offsets[Len(Entry.param_offsets)][1]

\* C25: when the entry of the called function has a variadic kind, every
\* argument beyond the last listed offset (every argument, when none is
\* listed) and the unpacked argument have an edge of the variadic kind to
\* the return node, and an argument at or below the last listed offset has
\* an edge only if it is listed, of a kind listed for it.
C25_VariadicEdges ==
    (CalledOne /\ Entry.variadic_path # {}) =>
        /\ \A i \in 1..Len(TheCall.args) :
              LET from == ArgumentNode(TheCall, i - 1, TheCall.args[i])
              IN IF Beyond(i - 1)
                 THEN HasEdge(from) /\ EdgeFrom(from).kind \in Entry.variadic_path
                 ELSE IF \E l \in Listed : l[1] = i - 1
                 THEN HasEdge(from) /\ <<i - 1, EdgeFrom(from).kind>> \in Listed
                 ELSE ~HasEdge(from)
        /\ \A e \in TheCall.expanded_arg :
              LET from == ArgumentNode(TheCall, Len(TheCall.args), e)
              IN HasEdge(from) /\ EdgeFrom(from).kind \in Entry.variadic_path

\* substr called with three arguments and an unpacked one
C25_Witness ==
    /\ CalledOne
    /\ TheCall.storage.name = Substr
    /\ Len(TheCall.args) = 3
    /\ TheCall.expanded_arg # {}
    /\ EdgeFrom(ArgumentNode(TheCall, 0, Pos1)).kind = PKDefault
    /\ EdgeFrom(ArgumentNode(TheCall, 2, Pos4)).kind = PKAggregate
    /\ \A e \in TheCall.expanded_arg : EdgeFrom(ArgumentNode(TheCall, 3, e)).kind = PKAggregate

KeyRemoved == last.op = "remove_key"

\* the known items of an atomic without those under the keys
KnownItemsWithout(atomic, keys) ==
    [k \in (DOMAIN KnownItems(atomic)) \ keys |-> KnownItems(atomic)[k]]

\* C26: Shapes::removeKey($a, 'k') with $a in scope removes k from the known
\* items of every dict atomic of the type of $a and leaves the other known
\* items and the other atomics as they are, adds an edge of kind
\* RemoveDictKey("k") from every parent node $a had to one assignment node,
\* registers that node and makes it the only parent node of $a; with the
\* variable not in scope, the environment and the graph stay as they are.
C26_KeyRemoved ==
    KeyRemoved =>
        LET var == last.arg.expr_var_id
            k == Unquoted(last.arg.dim_var_id)
            before == last.pre.vars_in_scope
            node == get_for_assignment(var, last.arg.arg_pos)
        IN IF var \in DOMAIN before
           THEN /\ DOMAIN context.vars_in_scope = DOMAIN before
                /\ \A path \in (DOMAIN before) \ {var} :
                      context.vars_in_scope[path] = before[path]
                /\ Len(context.vars_in_scope[var].types) = Len(before[var].types)
                /\ \A i \in 1..Len(before[var].types) :
                      LET old == before[var].types[i]
                          new_atomic == context.vars_in_scope[var].types[i]
                      IN IF old.tag = "TDict"
                         THEN /\ KnownItems(new_atomic)
                                     = KnownItemsWithout(old, {DictKeyString(k)})
                              /\ new_atomic.params = old.params
                              /\ new_atomic.tag = "TDict"
                         ELSE new_atomic = old
                /\ \A parent \in (DOMAIN before[var].parent_nodes) \ {node.id} :
                      /\ parent \in DOMAIN graph.forward_edges
                      /\ node.id \in DOMAIN graph.forward_edges[parent]
                      /\ graph.forward_edges[parent][node.id].kind = PKRemoveDictKey(k)
                /\ node.id \in DOMAIN graph.vertices
                /\ DOMAIN context.vars_in_scope[var].parent_nodes = {node.id}
           ELSE /\ context.vars_in_scope = before
                /\ graph = last.pre.graph

\* k removed from a shape with the keys k and j that had two parent nodes
C26_Witness ==
    /\ KeyRemoved
    /\ last.arg.expr_var_id = VarA
    /\ last.arg.dim_var_id = KeyK
    /\ Cardinality(DOMAIN last.pre.vars_in_scope[VarA].parent_nodes) = 2
    /\ DOMAIN KnownItems(last.pre.vars_in_scope[VarA].types[1])
           = {DictKeyString(<<"k">>), DictKeyString(<<"j">>)}
    /\ DOMAIN KnownItems(context.vars_in_scope[VarA].types[1]) = {DictKeyString(<<"j">>)}

LoopMerged == last.op = "do"

Unchanged(var_id) ==
    /\ var_id \in DOMAIN context.vars_in_scope <=> var_id \in DOMAIN last.pre.vars_in_scope
    /\ var_id \in DOMAIN last.pre.vars_in_scope =>
           context.vars_in_scope[var_id] = last.pre.vars_in_scope[var_id]

\* C27: at the end of a do-while loop that recorded a break, a variable of
\* the post-loop context that is listed in possibly_defined_loop_parent_vars
\* gets the union of its post-loop type and its possibly-defined type and
\* every other variable of the caller stays as it was; without a break every
\* variable of the post-loop context gets its post-loop type and the others
\* stay as they were.
C27_LoopVarsMerged ==
    LoopMerged =>
        \A var_id \in DOMAIN context.vars_in_scope \cup DOMAIN last.pre.vars_in_scope
                      \cup DOMAIN last.arg.inner \cup DOMAIN last.arg.possibly_defined :
            IF var_id \notin DOMAIN last.arg.inner THEN Unchanged(var_id)
            ELSE IF "Break" \notin last.arg.final_actions
            THEN /\ var_id \in DOMAIN context.vars_in_scope
                 /\ context.vars_in_scope[var_id] = last.arg.inner[var_id]
            ELSE IF var_id \in DOMAIN last.arg.possibly_defined
            THEN /\ var_id \in DOMAIN context.vars_in_scope
                 /\ context.vars_in_scope[var_id]
                        = add_union_type(last.arg.inner[var_id],
                                         last.arg.possibly_defined[var_id])
            ELSE Unchanged(var_id)

\* a loop with a break that retyped $a and defined $c, with $c possibly
\* defined before it: $c is merged and $a stays as it was
C27_Witness ==
    /\ LoopMerged
    /\ "Break" \in last.arg.final_actions
    /\ DOMAIN last.arg.possibly_defined = {VarC}
    /\ VarC \in DOMAIN last.arg.inner
    /\ last.arg.inner[VarA] # last.pre.vars_in_scope[VarA]
    /\ context.vars_in_scope[VarA] = last.pre.vars_in_scope[VarA]
    /\ SeqSet(context.vars_in_scope[VarC].types) = {TString, TInt}

ChainSearched == last.op = "get_origin_nodes"

\* the chain in the graph is acyclic and single-parent: node i has the one
\* parent node i + 1, and the last node has none
IsChain ==
    /\ \A i \in 0..last.pre.hops : ChainNode(i).id \in DOMAIN graph.vertices
    /\ \A i \in 0..(last.pre.hops - 1) :
           SetAt(graph.backward_edges, ChainNode(i).id) = {ChainNode(i + 1).id}
    /\ SetAt(graph.backward_edges, ChainNode(last.pre.hops).id) = {}

\* C28 as stated: on a single-parent chain the search returns the root when
\* the root is at most 50 backward hops from the start node, and no origin
\* when it is more than 50 hops away.
C28_RootWithinFiftyHops ==
    ChainSearched =>
        /\ IsChain
        /\ last.arg.origins = IF last.pre.hops <= MaxRounds
                              THEN <<ChainNode(last.pre.hops)>>
                              ELSE <<>>

\* C28 as the search runs: each of the 50 rounds expands one node of the
\* chain, the start node in the first, so the root is returned when it is at
\* most 49 backward hops from the start node, and no origin is returned when
\* it is 50 hops away or more.
C28_RootWithinFiftyRounds ==
    ChainSearched =>
        /\ IsChain
        /\ last.arg.origins = IF last.pre.hops < MaxRounds
                              THEN <<ChainNode(last.pre.hops)>>
                              ELSE <<>>

C28_Witness ==
    /\ ChainSearched
    /\ IsChain
    /\ last.pre.hops = MaxRounds - 1
    /\ last.arg.origins = <<ChainNode(MaxRounds - 1)>>

\* whether the path ends in an array key that is not a variable
LiteralKey(path) ==
    /\ ends_with(path, <<"]">>)
    /\ ~starts_with(ArrayKey(break_up_path_into_parts(path)), <<"$">>)

\* the flags of the last key reconciled, from the expanded batch
LastFlags(new_types, vars_in_scope, key) ==
    Flags(key, add_nested_assertions(new_types, vars_in_scope)[key])

\* the refinement of the last key reconciled is the known item of its base
LiftedIntoBase(e, scope) ==
    LET parts == break_up_path_into_parts(e.key)
    IN /\ Applies(parts, scope)
       /\ \A a \in Refined(parts, scope) :
              \A k \in KeyWritten(a, ArrayKey(parts)) :
                  /\ k \in DOMAIN KnownItems(a)
                  /\ ~KnownItems(a)[k].pu
                  /\ KnownItems(a)[k].type = e.result

\* the last key reconciled is an asserted sub-path of a variable that
\* get_value_for_key materialized, refined by assertions that are neither
\* equalities nor inverted issets
LastLifted(new_types, added, log, vars_in_scope) ==
    /\ log # <<>>
    /\ LET e == log[Len(log)]
       IN /\ e.key \in DOMAIN new_types
          /\ e.key \in added
          /\ Len(break_up_path_into_parts(e.key)) = 4
          /\ ~LastFlags(new_types, vars_in_scope, e.key).is_equality
          /\ ~LastFlags(new_types, vars_in_scope, e.key).inverted_isset

\* the asserted sub-paths with a literal key that are not in scope
Unscoped(new_types, vars_in_scope) ==
    {key \in DOMAIN new_types : LiteralKey(key) /\ key \notin DOMAIN vars_in_scope}

====
